---- MODULE Spec2Model ----
(***************************************************************************)
(* Category data pipeline of the eBay category analyzer:                   *)
(*   packages/api/src/utils/cache.js     CacheManager (file cache, TTL)    *)
(*   packages/api/src/api/ebayClient.js  EbayClient (token, search,        *)
(*                                       detail/group lookups, enrichment) *)
(*   packages/api/server.js              GET /api/category/:id             *)
(*   src/constants/categories.js         CATEGORIES, getCategoryById       *)
(*                                                                         *)
(* Strings that the code transforms character by character (category ids,  *)
(* cache keys, file paths) are sequences of one-character strings.  Time   *)
(* is Date.now() in milliseconds.                                          *)
(***************************************************************************)
EXTENDS Integers, Sequences, FiniteSets, TLC

VARIABLES
    now,          \* Date.now(), ms
    files,        \* the cache directory: path -> file content
    wr,           \* per process: the writeFileSync in progress, if any
    lastGet,      \* observation of the most recent CacheManager.get
    looked,       \* (id, path) pairs for which a handler derived a cache path
    accessToken,  \* EbayClient.accessToken
    tokenExpiry,  \* EbayClient.tokenExpiry
    exchanges,    \* number of requests sent to the OAuth token endpoint
    tcall,        \* per caller: the getAccessToken call in progress, if any
    lastCall,     \* observation of the most recent entry into getAccessToken
    lastRet,      \* observation of the most recent return of getAccessToken
    rpc,          \* GET /api/category/:id: where the handler of the request is
    reqId,        \* req.params.id of the request
    summaries,    \* activeData.items, the summaries the search returned
    ipc,          \* per summary: where its enrichment callback is
    itemDetails,  \* per summary: the local variable details of its callback
    enriched,     \* the array Promise.all collects the callbacks' results in
    resp,         \* the response sent for the request
    calls,        \* Browse API requests sent for the request, by endpoint
    args,         \* the arguments of a call of one of the pure functions
    result        \* what that call returned

cacheVars == <<files, wr, lastGet>>
keyVars == <<looked>>
tokenVars == <<accessToken, tokenExpiry, exchanges, tcall, lastCall, lastRet>>
runVars == <<rpc, reqId, summaries, ipc, itemDetails, enriched, resp, calls>>
fnVars == <<args, result>>
vars == <<now, files, wr, lastGet, looked,
          accessToken, tokenExpiry, exchanges, tcall, lastCall, lastRet,
          rpc, reqId, summaries, ipc, itemDetails, enriched, resp, calls,
          args, result>>

(***************************************************************************)
(* Bounds of the model.                                                    *)
(***************************************************************************)
MaxTicks == 3        \* the clock advances at most this many hours
MaxLooked == 3       \* path derivations remembered in the key specification
MaxExchanges == 3    \* token-endpoint requests in the token specification
MaxItems == 3        \* summaries a search returns
WorkerCap == 2       \* the worker cap W the concurrency bound is stated for
MaxVariants == 3     \* variations of an item group

(***************************************************************************)
(* JavaScript values.                                                      *)
(***************************************************************************)
Null == [js |-> "null"]
Undefined == [js |-> "undefined"]
Num(n) == [js |-> "num", n |-> n]
Str(s) == [js |-> "str", s |-> s]
Arr(a) == [js |-> "arr", a |-> a]
Bool(b) == [js |-> "bool", b |-> b]
NaN == [js |-> "nan"]

\* JavaScript truthiness: if (v), v || w.
Truthy(v) ==
    IF "js" \notin DOMAIN v THEN TRUE
    ELSE IF v.js = "num" THEN v.n # 0
    ELSE IF v.js = "str" THEN v # Str("")
    ELSE IF v.js = "bool" THEN v.b
    ELSE v.js = "arr"

(***************************************************************************)
(* src/constants/categories.js                                             *)
(***************************************************************************)
CATEGORIES ==
    { <<"6","0","0","0">>, <<"2","9","3">>, <<"1">>, <<"1","1","7","0","0">>,
      <<"1","1","4","5","0">>, <<"2","2","0">>, <<"8","8","8">>, <<"2","6","7">>,
      <<"2","6","3","9","5">>, <<"1","2","5","7","6">>, <<"2","8","1">>,
      <<"2","9","8","4">>, <<"1","2","8","1">> }

\* getCategoryById(id) is truthy exactly for the ids of the table.
getCategoryById(id) == id \in CATEGORIES

(***************************************************************************)
(* Key derivation: server.js:74 and CacheManager.getCacheFilePath.         *)
(***************************************************************************)
Digits == {"0","1","2","3","4","5","6","7","8","9"}
LowerCase == {"a","b","c","d","e","f","g","h","i","j","k","l","m",
              "n","o","p","q","r","s","t","u","v","w","x","y","z"}
UpperCase == {"A","B","C","D","E","F","G","H","I","J","K","L","M",
              "N","O","P","Q","R","S","T","U","V","W","X","Y","Z"}

\* The characters the regular expression /[^a-z0-9_-]/gi leaves alone.
KeptChars == LowerCase \cup UpperCase \cup Digits \cup {"_", "-"}

\* `category_${id}`
cacheKey(id) == <<"c","a","t","e","g","o","r","y","_">> \o id

\* Mutant: the character class forgets the digits (/[^a-z_-]/gi).
getCacheFilePath_NoDigits(key) ==
    <<"data/">> \o [i \in 1..Len(key) |->
                       IF key[i] \in KeptChars \ Digits THEN key[i] ELSE "_"]
                \o <<".json">>

\* path.join(cacheDir, key.replace(/[^a-z0-9_-]/gi, '_') + '.json')
getCacheFilePath(key) ==
    <<"data/">> \o [i \in 1..Len(key) |->
                       IF key[i] \in KeptChars THEN key[i] ELSE "_"]
                \o <<".json">>

\* Request ids the handlers may receive: the table's ids and ids that are
\* not in the table, some of which sanitize to the same path.
RequestIds ==
    CATEGORIES \cup { <<"1",".","5">>, <<"1","_","5">>, <<"1","/","5">>,
                      <<"2","9","3"," ">>, <<"2","9","3","_">>, <<>> }

(***************************************************************************)
(* CacheManager (packages/api/src/utils/cache.js)                          *)
(***************************************************************************)
CacheDurationHours == 2
cacheDuration == CacheDurationHours * 60 * 60 * 1000

\* One hour of wall-clock time.
HourMs == 60 * 60 * 1000

\* File contents.  "text" is text produced by JSON.stringify (val is the
\* value JSON.parse gives back); "garbage" is text JSON.parse rejects;
\* "partial" is the truncated or partly written file of a writeFileSync in
\* progress, which JSON.parse rejects as well.
NoFile == [kind |-> "none"]
Garbage == [kind |-> "garbage"]
Partial == [kind |-> "partial"]

\* Array.isArray(v)
IsArray(v) == "js" \in DOMAIN v /\ v.js = "arr"

\* Mutant of JsonValue: a property whose value is null is left out as
\* well.
RECURSIVE JsonValue_DropsNull(_)
JsonValue_DropsNull(v) ==
    IF IsArray(v)
    THEN Arr([i \in 1..Len(v.a) |->
                 IF v.a[i] = Undefined THEN Null ELSE JsonValue_DropsNull(v.a[i])])
    ELSE IF v = NaN THEN Null
    ELSE IF "js" \in DOMAIN v THEN v
    ELSE [f \in {g \in DOMAIN v : v[g] \notin {Undefined, Null}} |->
             JsonValue_DropsNull(v[f])]

\* What JSON.parse gives back for the text JSON.stringify writes for v: a
\* property whose value is undefined is left out, an undefined array
\* element becomes null, and so does NaN.
RECURSIVE JsonValue(_)
JsonValue(v) ==
    IF IsArray(v)
    THEN Arr([i \in 1..Len(v.a) |->
                 IF v.a[i] = Undefined THEN Null ELSE JsonValue(v.a[i])])
    ELSE IF v = NaN THEN Null
    ELSE IF "js" \in DOMAIN v THEN v
    ELSE [f \in {g \in DOMAIN v : v[g] # Undefined} |-> JsonValue(v[f])]

\* JSON.stringify(value, null, 2)
JsonStringify(v) == [kind |-> "text", val |-> JsonValue(v)]

\* JSON.parse(fileContent) throws on text that is not JSON.
JsonParseThrows(content) == content.kind # "text"
JsonParse(content) == content.val

\* cached.<field>: undefined when the parsed object lacks the property.
Prop(obj, f) == IF f \in DOMAIN obj THEN obj[f] ELSE Undefined

\* fs.existsSync(filePath)
existsSync(fs, path) == fs[path].kind # "none"

\* Mutant of CacheDeleteFiles: every file of the directory is removed.
CacheDeleteFiles_All(fs, key) ==
    IF existsSync(fs, getCacheFilePath(key)) THEN [p \in DOMAIN fs |-> NoFile] ELSE fs

\* CacheManager.delete(key): the files afterwards, and the return value.
CacheDeleteFiles(fs, key) ==
    LET path == getCacheFilePath(key)
    IN IF existsSync(fs, path) THEN [fs EXCEPT ![path] = NoFile] ELSE fs
CacheDeleteRet(fs, key) == existsSync(fs, getCacheFilePath(key))

\* Mutant: an expired entry is reported as a miss but left on disk.
CacheGet_KeepExpired(fs, key, t) ==
    LET path == getCacheFilePath(key)
        content == fs[path]
    IN  IF ~existsSync(fs, path)
        THEN [ret |-> Null, fs |-> fs, threw |-> FALSE]
        ELSE IF JsonParseThrows(content)
        THEN [ret |-> Null, fs |-> CacheDeleteFiles(fs, key), threw |-> FALSE]
        ELSE LET cached == JsonParse(content)
                 ts == Prop(cached, "timestamp")
             IN IF ts.js = "num" /\ t - ts.n > cacheDuration
                THEN [ret |-> Null, fs |-> fs, threw |-> FALSE]
                ELSE [ret |-> Prop(cached, "data"), fs |-> fs, threw |-> FALSE]

\* Mutant: the catch block is missing, a parse error reaches the caller.
CacheGet_NoCatch(fs, key, t) ==
    LET path == getCacheFilePath(key)
        content == fs[path]
    IN  IF ~existsSync(fs, path)
        THEN [ret |-> Null, fs |-> fs, threw |-> FALSE]
        ELSE IF JsonParseThrows(content)
        THEN [ret |-> Undefined, fs |-> fs, threw |-> TRUE]
        ELSE LET cached == JsonParse(content)
                 ts == Prop(cached, "timestamp")
             IN IF ts.js = "num" /\ t - ts.n > cacheDuration
                THEN [ret |-> Null, fs |-> CacheDeleteFiles(fs, key), threw |-> FALSE]
                ELSE [ret |-> Prop(cached, "data"), fs |-> fs, threw |-> FALSE]

\* CacheManager.get(key) at time t in a process whose cacheDuration is
\* duration: the value returned, the files afterwards, and whether an
\* exception reached the caller.  A timestamp that is not a number makes
\* the age NaN, and NaN > cacheDuration is false.
CacheGetWithin(fs, key, t, duration) ==
    LET path == getCacheFilePath(key)
        content == fs[path]
    IN  IF ~existsSync(fs, path)
        THEN [ret |-> Null, fs |-> fs, threw |-> FALSE]
        ELSE IF JsonParseThrows(content)
        THEN [ret |-> Null, fs |-> CacheDeleteFiles(fs, key), threw |-> FALSE]
        ELSE LET cached == JsonParse(content)
                 ts == Prop(cached, "timestamp")
             IN IF ts.js = "num" /\ t - ts.n > duration
                THEN [ret |-> Null, fs |-> CacheDeleteFiles(fs, key), threw |-> FALSE]
                ELSE [ret |-> Prop(cached, "data"), fs |-> fs, threw |-> FALSE]

\* CacheManager.get(key) in a process started with the default
\* CACHE_DURATION.
CacheGet(fs, key, t) == CacheGetWithin(fs, key, t, cacheDuration)

\* The object CacheManager.set serializes.
CacheRecord(key, data, t) ==
    [key |-> Str(key), timestamp |-> Num(t), data |-> data,
     expiresAt |-> Num(t + cacheDuration)]

\* fs.writeFileSync(filePath, text) opens the file with O_TRUNC, then writes
\* the text: between the two the file holds less than the text.
WriteOpen(fs, path) == [fs EXCEPT ![path] = Partial]
WriteFinish(fs, path, text) == [fs EXCEPT ![path] = text]

\* Mutant of CacheSet: an entry that exists is not overwritten.
CacheSet_KeepExisting(fs, key, data, t) ==
    LET path == getCacheFilePath(key)
    IN IF existsSync(fs, path) THEN fs
       ELSE WriteFinish(WriteOpen(fs, path), path, JsonStringify(CacheRecord(key, data, t)))

\* CacheManager.set(key, data) as seen from its own process, where it is
\* synchronous: the files afterwards.
CacheSet(fs, key, data, t) ==
    LET path == getCacheFilePath(key)
    IN WriteFinish(WriteOpen(fs, path), path, JsonStringify(CacheRecord(key, data, t)))

\* CacheManager.set(key, data), lines 69-75: what it returns and the files
\* afterwards, when writeFileSync succeeds, when it throws before the file
\* is opened, and when it throws after the file has been truncated.
CacheSetOutcomes(fs, key, data, t) ==
    { [ret |-> TRUE, fs |-> CacheSet(fs, key, data, t)],
      [ret |-> FALSE, fs |-> fs],
      [ret |-> FALSE, fs |-> WriteOpen(fs, getCacheFilePath(key))] }

(***************************************************************************)
(* Token lifecycle: EbayClient.getAccessToken                              *)
(* (packages/api/src/api/ebayClient.js:25-55).                             *)
(***************************************************************************)
SafetyMarginSec == 300

\* An access token as the endpoint issues it: an opaque string, which the
\* endpoint honours until iat + life seconds.
Token(iat, life) == [js |-> "str", iat |-> iat, life |-> life]
TrueExpiry(tok) == tok.iat + tok.life * 1000

\* JavaScript truthiness of the two fields.
TruthyToken(tok) == tok.js = "str"
TruthyNumber(x) == x.js = "num" /\ x.n # 0

\* Mutant: the comparison admits the instant of expiry (<=).
TokenValid_AtExpiry(tok, exp, t) ==
    TruthyToken(tok) /\ TruthyNumber(exp) /\ t <= exp.n

\* Mutant of TokenValid: the expiry is read as seconds.
TokenValid_InSeconds(tok, exp, t) ==
    TruthyToken(tok) /\ TruthyNumber(exp) /\ t < exp.n \div 1000

\* this.accessToken && this.tokenExpiry && Date.now() < this.tokenExpiry
TokenValid(tok, exp, t) ==
    TruthyToken(tok) /\ TruthyNumber(exp) /\ t < exp.n

\* this.tokenExpiry = Date.now() + (response.data.expires_in - 300) * 1000
StoredExpiry(expires_in, t) == Num(t + (expires_in - SafetyMarginSec) * 1000)

\* The constructor: no token yet.
TokenIdle ==
    /\ accessToken = Null
    /\ tokenExpiry = Null
    /\ exchanges = 0
    /\ tcall = <<>>
    /\ lastCall = [done |-> FALSE]
    /\ lastRet = [done |-> FALSE]

(***************************************************************************)
(* Items: what the Browse API returns and what enrichment makes of it      *)
(* (packages/api/src/api/ebayClient.js:117-272, 323-386).  Of the fields   *)
(* the code copies, the model keeps the identity, the title, the price,    *)
(* the watch count and the sold and remaining quantities.  Prices are in   *)
(* cents.                                                                  *)
(***************************************************************************)
Price(cents) == [value |-> Num(cents)]

\* Item ids of the upstream catalogue.
ItemNames == <<"A", "B", "C", "D", "E", "F">>
VariationNames == <<"V1", "V2", "V3", "V4", "V5">>

\* One element of data.itemSummaries, for the k-th item of the catalogue.
Summary(k) ==
    [itemId |-> Str(ItemNames[k]), title |-> Str("summary"), price |-> Price(2000)]

\* response.data of GET /item/{itemId}; grouped items name their group.
Detail(k, grouped) ==
    [itemId |-> Str(ItemNames[k]), title |-> Str("detail"), price |-> Price(1900),
     watchCount |-> Num(5),
     estimatedAvailabilities |->
         Arr(<<[estimatedSoldQuantity |-> Num(4), estimatedRemainingQuantity |-> Num(6)]>>),
     primaryItemGroup |->
         IF grouped THEN [itemGroupId |-> Str(ItemNames[k])] ELSE Undefined]

\* data.items of GET /item/get_items_by_item_group for the group of item k:
\* three variations priced 10.00, 7.50, 9.00 that sold 2, 1, 3.
Variation(k, j, cents, sold) ==
    [itemId |-> Str(VariationNames[j]), title |-> Str("variation"),
     price |-> Price(cents),
     watchCount |-> Num(j),
     estimatedAvailabilities |->
         Arr(<<[estimatedSoldQuantity |-> Num(sold), estimatedRemainingQuantity |-> Num(1)]>>),
     primaryItemGroup |-> [itemGroupId |-> Str(ItemNames[k])]]
GroupItems(k) ==
    << Variation(k, 1, 1000, 2), Variation(k, 2, 750, 1), Variation(k, 3, 900, 3) >>

\* Price values as the Browse API sends them: the decimal text of an
\* amount ("7.50", here in cents), and text that is no number.
PriceText(cents) == [js |-> "str", dec |-> cents]
NoNumberText == Str("abc")

\* JavaScript numbers: a finite number (here an integer), Infinity, NaN.
Finite(n) == [k |-> "num", n |-> n]
Infinity == [k |-> "inf"]
NotANumber == [k |-> "nan"]

\* parseFloat(v): a number is itself, decimal text is its amount, anything
\* else is NaN.
parseFloat(v) ==
    IF v.js = "num" THEN Finite(v.n)
    ELSE IF v.js = "str" /\ "dec" \in DOMAIN v THEN Finite(v.dec)
    ELSE NotANumber

\* item.price?.value
PriceValue(item) ==
    LET p == Prop(item, "price")
    IN IF p \in {Undefined, Null} THEN Undefined ELSE Prop(p, "value")

\* parseFloat(item.price?.value || Infinity)
PriceOrInfinity(item) ==
    LET v == PriceValue(item)
    IN IF Truthy(v) THEN parseFloat(v) ELSE Infinity

\* a < b on JavaScript numbers: false when either is NaN.
JsLess(a, b) ==
    IF a.k = "nan" \/ b.k = "nan" THEN FALSE
    ELSE IF a.k = "inf" THEN FALSE
    ELSE IF b.k = "inf" THEN TRUE
    ELSE a.n < b.n

\* allVariations.reduce((min, item) => price < minPrice ? item : min, allVariations[0])
RECURSIVE CheapestFrom(_, _, _)
CheapestFrom(all, i, min) ==
    IF i > Len(all) THEN min
    ELSE CheapestFrom(all, i + 1,
            IF JsLess(PriceOrInfinity(all[i]), PriceOrInfinity(min)) THEN all[i] ELSE min)
cheapestVariation(all) == CheapestFrom(all, 1, all[1])

\* details.estimatedAvailabilities?.[0]?.<q>
FirstAvailability(details, q) ==
    LET ea == Prop(details, "estimatedAvailabilities")
    IN IF ea.js = "arr" /\ ea.a # <<>> THEN Prop(ea.a[1], q) ELSE Undefined

\* item.estimatedAvailabilities?.[0]?.<q> || 0
Quantity(item, q) ==
    LET v == FirstAvailability(item, q)
    IN IF v.js = "num" THEN v.n ELSE 0

\* Mutant of SumFrom: the quantities of the last variation are left out.
RECURSIVE SumFrom_DropLast(_, _, _)
SumFrom_DropLast(all, i, q) ==
    IF i >= Len(all) THEN 0 ELSE Quantity(all[i], q) + SumFrom_DropLast(all, i + 1, q)

\* allVariations.reduce((sum, item) => sum + (quantity || 0), 0)
RECURSIVE SumFrom(_, _, _)
SumFrom(all, i, q) ==
    IF i > Len(all) THEN 0 ELSE Quantity(all[i], q) + SumFrom(all, i + 1, q)

\* getItemGroupDetails, lines 162-197: null for an empty group, otherwise
\* the cheapest variation with the quantities summed over all variations.
AggregateGroup(items) ==
    IF items = <<>> THEN Null
    ELSE LET c == cheapestVariation(items)
             ea == Prop(c, "estimatedAvailabilities")
             first == IF ea.js = "arr" /\ ea.a # <<>> THEN ea.a[1] ELSE <<>>
             totals == [estimatedSoldQuantity |-> Num(SumFrom(items, 1, "estimatedSoldQuantity")),
                        estimatedRemainingQuantity |->
                            Num(SumFrom(items, 1, "estimatedRemainingQuantity"))]
         IN [f \in DOMAIN c \cup {"estimatedAvailabilities"} |->
                IF f = "estimatedAvailabilities"
                THEN Arr(<<[g \in DOMAIN first \cup DOMAIN totals |->
                              IF g \in DOMAIN totals THEN totals[g] ELSE first[g]]>>)
                ELSE c[f]]

\* a || b
JsOr(a, b) == IF Truthy(a) THEN a ELSE b

\* o?.image?.imageUrl
ImageUrl(o) ==
    LET image == Prop(o, "image")
    IN IF image \in {Undefined, Null} THEN Undefined ELSE Prop(image, "imageUrl")

\* enrichItemsWithDetails, lines 224-264: { ...item, <fields of details> }
MergeDetails(item, details) ==
    LET over == [watchCount |-> Prop(details, "watchCount"),
                 quantitySold |-> FirstAvailability(details, "estimatedSoldQuantity"),
                 price |-> Prop(details, "price"),
                 imageUrl |-> JsOr(ImageUrl(details), ImageUrl(item)),
                 title |-> JsOr(Prop(details, "title"), Prop(item, "title")),
                 estimatedRemainingQuantity |->
                     FirstAvailability(details, "estimatedRemainingQuantity")]
    IN [f \in DOMAIN item \cup DOMAIN over |->
           IF f \in DOMAIN over THEN over[f] ELSE item[f]]

\* Mutant: the fallback "return item" is missing, the callback returns
\* undefined for an item without details.
EnrichedItem_NoFallback(item, details) ==
    IF details # Null THEN MergeDetails(item, details) ELSE Undefined

\* enrichItemsWithDetails, lines 223-267: what the callback of one item
\* returns for the details it ended up with (null when the lookup failed).
EnrichedItem(item, details) ==
    IF details # Null THEN MergeDetails(item, details) ELSE item

\* extractMetrics throws when the item has no price.
ExtractThrows(item) ==
    item \in {Undefined, Null} \/ Prop(item, "price") \in {Undefined, Null}

\* extractMetrics, lines 335-385 (the fields the model keeps).
extractMetrics(item) ==
    LET num(v) == IF v.js = "num" THEN v.n ELSE 0
    IN [itemId |-> JsOr(Prop(item, "itemId"), Str("N/A")),
        title |-> JsOr(Prop(item, "title"), Str("Unknown Product")),
        price |-> num(Prop(item.price, "value")),
        watchCount |-> num(Prop(item, "watchCount")),
        quantitySold |-> num(Prop(item, "quantitySold"))]

(***************************************************************************)
(* The request handler's state when no request has been received.          *)
(***************************************************************************)
NoResponse == [status |-> 0]
NoCalls == [search |-> 0, detail |-> 0, group |-> 0]

RunIdle ==
    /\ rpc = "idle"
    /\ reqId = <<>>
    /\ summaries = <<>>
    /\ ipc = <<>>
    /\ itemDetails = <<>>
    /\ enriched = <<>>
    /\ resp = NoResponse
    /\ calls = NoCalls

\* No call of a pure function has been made.
NotCalled == [js |-> "none"]
FnIdle ==
    /\ args = <<>>
    /\ result = NotCalled

(***************************************************************************)
(* Key specification: the handlers derive the cache path of a request id.  *)
(* server.js:65-77 (and index.js:66-70, whose ids come from the table).    *)
(***************************************************************************)
KeyInit ==
    /\ now = 0
    /\ files = <<>>
    /\ wr = <<>>
    /\ lastGet = Null
    /\ looked = {}
    /\ TokenIdle
    /\ RunIdle
    /\ FnIdle

\* A request whose id is in the table: the handler derives the cache path.
KeyLookup(id) ==
    /\ getCategoryById(id)
    /\ Cardinality(looked) < MaxLooked
    /\ looked' = looked \cup {[id |-> id, path |-> getCacheFilePath(cacheKey(id))]}
    /\ UNCHANGED <<now, cacheVars, tokenVars, runVars, fnVars>>

\* A request whose id is not in the table is answered 404 before any cache
\* key is derived.
KeyReject(id) ==
    /\ ~getCategoryById(id)
    /\ UNCHANGED vars

KeyNext == \E id \in RequestIds : KeyLookup(id) \/ KeyReject(id)

SpecKey == KeyInit /\ [][KeyNext]_vars

(***************************************************************************)
(* Cache specification: two processes of the API server share the cache    *)
(* directory.  Within a process get, set and delete are                    *)
(* synchronous; between processes the two system calls of writeFileSync    *)
(* (open with truncation, write) interleave with the other's operations.   *)
(***************************************************************************)
Procs == {"p1", "p2"}
CacheIds == { <<"1">>, <<"2","9","3">> }
CachePaths == { getCacheFilePath(cacheKey(id)) : id \in CacheIds }
\* The result each process has computed and stores.
CachePayload(p) ==
    IF p = "p1" THEN [items |-> Arr(<<Summary(1)>>)]
    ELSE [items |-> Arr(<<Summary(1), Summary(2)>>)]

Idle == [st |-> "idle"]

NoGet == [done |-> FALSE]

\* What a get saw and did: the content of the file when it ran, what it
\* returned, the content of the file when it returned, the time, and what
\* a get of the same key that follows at once returns.
GetObservation(fs, key, t) ==
    LET path == getCacheFilePath(key)
        r == CacheGet(fs, key, t)
    IN [done |-> TRUE, seen |-> fs[path], ret |-> r.ret, after |-> r.fs[path],
        at |-> t, threw |-> r.threw, next |-> CacheGet(r.fs, key, t).ret]

\* An unlink detaches the file from the writers that hold it open: what
\* they write afterwards goes to a file no path names any more.
Detach(w, fsBefore, fsAfter) ==
    [p \in DOMAIN w |->
        IF w[p].st = "writing" /\ fsBefore[w[p].path] # NoFile
                               /\ fsAfter[w[p].path] = NoFile
        THEN [w[p] EXCEPT !.live = FALSE] ELSE w[p]]

CacheInit ==
    /\ now = 0
    /\ files \in [CachePaths -> {NoFile, Garbage}]
    /\ wr = [p \in Procs |-> Idle]
    /\ lastGet = NoGet
    /\ looked = {}
    /\ TokenIdle
    /\ RunIdle
    /\ FnIdle

CGet(p, id) ==
    /\ wr[p] = Idle
    /\ LET r == CacheGet(files, cacheKey(id), now)
       IN /\ files' = r.fs
          /\ wr' = Detach(wr, files, r.fs)
    /\ lastGet' = GetObservation(files, cacheKey(id), now)
    /\ UNCHANGED <<now, keyVars, fnVars, tokenVars, runVars>>

\* set, first system call: the file is opened and truncated.
CSetOpen(p, id) ==
    /\ wr[p] = Idle
    /\ LET path == getCacheFilePath(cacheKey(id))
       IN /\ files' = WriteOpen(files, path)
          /\ wr' = [wr EXCEPT ![p] =
                       [st |-> "writing", path |-> path, live |-> TRUE,
                        text |-> JsonStringify(CacheRecord(cacheKey(id), CachePayload(p), now))]]
    /\ UNCHANGED <<now, lastGet, keyVars, fnVars, tokenVars, runVars>>

\* set, second system call: the text is written to the open file.
CSetWrite(p) ==
    /\ wr[p].st = "writing"
    /\ files' = IF wr[p].live THEN WriteFinish(files, wr[p].path, wr[p].text)
                ELSE files
    /\ wr' = [wr EXCEPT ![p] = Idle]
    /\ UNCHANGED <<now, lastGet, keyVars, fnVars, tokenVars, runVars>>

CDelete(p, id) ==
    /\ wr[p] = Idle
    /\ files' = CacheDeleteFiles(files, cacheKey(id))
    /\ wr' = Detach(wr, files, files')
    /\ UNCHANGED <<now, lastGet, keyVars, fnVars, tokenVars, runVars>>

Tick ==
    /\ now < MaxTicks * HourMs
    /\ now' = now + HourMs
    /\ UNCHANGED <<cacheVars, keyVars, fnVars, tokenVars, runVars>>

CacheNext ==
    \/ \E p \in Procs, id \in CacheIds : CGet(p, id)
    \/ \E p \in Procs, id \in CacheIds : CSetOpen(p, id)
    \/ \E p \in Procs : CSetWrite(p)
    \/ \E p \in Procs, id \in CacheIds : CDelete(p, id)
    \/ Tick

SpecCache == CacheInit /\ [][CacheNext]_vars

(***************************************************************************)
(* Claims about the cache.                                                 *)
(***************************************************************************)
\* The entry a get saw was written by set: its creation time and its TTL.
SeenEntry == lastGet.done /\ lastGet.seen.kind = "text"
SeenCreated == lastGet.seen.val.timestamp.n
SeenTtl == lastGet.seen.val.expiresAt.n - lastGet.seen.val.timestamp.n

C5_Served ==
    /\ SeenEntry
    /\ lastGet.at - SeenCreated > 0
    /\ lastGet.at - SeenCreated < SeenTtl
    /\ lastGet.ret = lastGet.seen.val.data

C7_NeverSeesHalfWritten ==
    lastGet.done => lastGet.seen # Partial

\* C8: two different category identifiers never map to the same storage
\* path.
C8_KeyInjective ==
    \A a, b \in looked : a.path = b.path => a.id = b.id

\* C8 witness: the paths of two different identifiers of the same length
\* have been derived.
C8_Witness ==
    \E a, b \in looked : a.id = <<"2","9","3">> /\ b.id = <<"2","8","1">>

(***************************************************************************)
(* Token specification: concurrent callers of getAccessToken on one        *)
(* EbayClient.  A call runs up to its first await in one step; the         *)
(* response of the token endpoint is a later step.                         *)
(***************************************************************************)
Callers == {"c1", "c2"}

\* The clock of this specification advances in steps of a third of the
\* safety margin.
TokenTickMs == (SafetyMarginSec \div 3) * 1000

\* Lifetimes (expires_in, seconds) the endpoint may report: shorter than
\* the margin, the margin, and longer.
Lifetimes == { SafetyMarginSec \div 3, SafetyMarginSec,
               SafetyMarginSec + SafetyMarginSec \div 3, 2 * SafetyMarginSec }

TokenInit ==
    /\ now = 0
    /\ files = <<>>
    /\ wr = <<>>
    /\ lastGet = Null
    /\ looked = {}
    /\ accessToken = Null
    /\ tokenExpiry = Null
    /\ exchanges = 0
    /\ tcall = [c \in Callers |-> "idle"]
    /\ lastCall = [done |-> FALSE]
    /\ lastRet = [done |-> FALSE]
    /\ RunIdle
    /\ FnIdle

\* getAccessToken, lines 25-29: the stored token is still valid.
TokCallCached(c) ==
    /\ tcall[c] = "idle"
    /\ TokenValid(accessToken, tokenExpiry, now)
    /\ lastCall' = [done |-> TRUE, at |-> now, token |-> accessToken,
                    expiry |-> tokenExpiry, sent |-> 0, served |-> accessToken]
    /\ lastRet' = [done |-> TRUE, ok |-> TRUE, at |-> now, token |-> accessToken,
                   fresh |-> FALSE]
    /\ UNCHANGED <<now, cacheVars, keyVars, fnVars, runVars, accessToken, tokenExpiry, exchanges, tcall>>

\* getAccessToken, lines 31-43: no valid token, the exchange is requested.
TokCallExchange(c) ==
    /\ tcall[c] = "idle"
    /\ ~TokenValid(accessToken, tokenExpiry, now)
    /\ exchanges < MaxExchanges
    /\ exchanges' = exchanges + 1
    /\ tcall' = [tcall EXCEPT ![c] = "wait"]
    /\ lastCall' = [done |-> TRUE, at |-> now, token |-> accessToken,
                    expiry |-> tokenExpiry, sent |-> 1, served |-> Null]
    /\ UNCHANGED <<now, cacheVars, keyVars, fnVars, runVars, accessToken, tokenExpiry, lastRet>>

\* Mutant of TokExchangeOk: an expiry that is stored already is kept when
\* it is the later one.
TokExchangeOk_KeepsLaterExpiry(c, life) ==
    /\ tcall[c] = "wait"
    /\ accessToken' = Token(now, life)
    /\ tokenExpiry' = IF tokenExpiry # Null /\ tokenExpiry.n > StoredExpiry(life, now).n
                      THEN tokenExpiry ELSE StoredExpiry(life, now)
    /\ tcall' = [tcall EXCEPT ![c] = "idle"]
    /\ lastRet' = [done |-> TRUE, ok |-> TRUE, at |-> now, token |-> accessToken',
                   fresh |-> TRUE, life |-> life, stored |-> tokenExpiry']
    /\ UNCHANGED <<now, cacheVars, keyVars, fnVars, runVars, exchanges, lastCall>>

\* getAccessToken, lines 45-49: the endpoint answers with a token.
TokExchangeOk(c, life) ==
    /\ tcall[c] = "wait"
    /\ accessToken' = Token(now, life)
    /\ tokenExpiry' = StoredExpiry(life, now)
    /\ tcall' = [tcall EXCEPT ![c] = "idle"]
    /\ lastRet' = [done |-> TRUE, ok |-> TRUE, at |-> now, token |-> accessToken',
                   fresh |-> TRUE, life |-> life, stored |-> tokenExpiry']
    /\ UNCHANGED <<now, cacheVars, keyVars, fnVars, runVars, exchanges, lastCall>>

\* Mutant of TokExchangeFail: the failed exchange clears the stored token.
TokExchangeFail_ClearsToken(c) ==
    /\ tcall[c] = "wait"
    /\ tcall' = [tcall EXCEPT ![c] = "idle"]
    /\ accessToken' = Null
    /\ tokenExpiry' = Null
    /\ lastRet' = [done |-> TRUE, ok |-> FALSE, at |-> now]
    /\ UNCHANGED <<now, cacheVars, keyVars, fnVars, runVars, exchanges, lastCall>>

\* getAccessToken, lines 51-54: the exchange failed, the call throws.
TokExchangeFail(c) ==
    /\ tcall[c] = "wait"
    /\ tcall' = [tcall EXCEPT ![c] = "idle"]
    /\ lastRet' = [done |-> TRUE, ok |-> FALSE, at |-> now]
    /\ UNCHANGED <<now, cacheVars, keyVars, fnVars, runVars, accessToken, tokenExpiry, exchanges, lastCall>>

TokTick ==
    /\ now < MaxTicks * TokenTickMs
    /\ now' = now + TokenTickMs
    /\ UNCHANGED <<cacheVars, keyVars, fnVars, tokenVars, runVars>>

TokenNext ==
    \/ \E c \in Callers : TokCallCached(c)
    \/ \E c \in Callers : TokCallExchange(c)
    \/ \E c \in Callers, life \in Lifetimes : TokExchangeOk(c, life)
    \/ \E c \in Callers : TokExchangeFail(c)
    \/ TokTick

SpecToken == TokenInit /\ [][TokenNext]_vars

(***************************************************************************)
(* Claims about the token.                                                 *)
(***************************************************************************)
\* C9: every token getAccessToken returns, from memory or freshly
\* exchanged, whatever lifetime the endpoint reported, truly expires at
\* least the safety margin after the moment it is returned.
C9_ReturnedTokenHasMargin ==
    (lastRet.done /\ lastRet.ok) =>
        TrueExpiry(lastRet.token) - lastRet.at >= SafetyMarginSec * 1000

\* C9, the part that holds: a token served from memory has the margin.
C9_CachedTokenHasMargin ==
    (lastRet.done /\ lastRet.ok /\ ~lastRet.fresh) =>
        TrueExpiry(lastRet.token) - lastRet.at >= SafetyMarginSec * 1000

\* C10: a call that finds a token stored and the time before its stored
\* expiry returns that token and sends nothing to the token endpoint; any
\* other call sends an exchange, and a successful exchange stores
\* expiresAt = now + reportedLifetime - safetyMargin.
C10_CachedOrExchange ==
    /\ lastCall.done =>
          IF lastCall.token.js = "str" /\ lastCall.expiry.js = "num"
                                       /\ lastCall.at < lastCall.expiry.n
          THEN lastCall.sent = 0 /\ lastCall.served = lastCall.token
          ELSE lastCall.sent = 1 /\ lastCall.served = Null
    /\ (lastRet.done /\ lastRet.ok /\ lastRet.fresh) =>
          lastRet.stored.n = lastRet.at + lastRet.life * 1000 - SafetyMarginSec * 1000

\* C10 witness: a call was served from memory one tick before the stored
\* expiry, without a request to the endpoint.
C10_Witness ==
    /\ lastCall.done
    /\ lastCall.sent = 0
    /\ lastCall.served = lastCall.token
    /\ lastCall.served.js = "str"
    /\ lastCall.at > lastCall.token.iat
    /\ exchanges = 1

\* C10, second case: a call at the instant of the stored expiry exchanged.
C10_ExchangedAtExpiry ==
    /\ lastCall.done
    /\ lastCall.sent = 1
    /\ lastCall.token.js = "str"
    /\ lastCall.expiry.n = lastCall.at

(***************************************************************************)
(* Run specification: one API server process answers requests              *)
(* GET /api/category/:id one after the other (server.js:63-131).  The      *)
(* handler and the callbacks of enrichItemsWithDetails run on one thread:  *)
(* each step is the code between two awaits.  The upstream answers every   *)
(* request it is sent, with a result or with a failure, in any order.      *)
(***************************************************************************)
RunIds == { <<"1">>, <<"9">> }

\* Lifetimes (expires_in, seconds) the token endpoint reports in a run:
\* shorter than the safety margin, and two hours.
RunLifetimes == { SafetyMarginSec \div 3, 2 * 60 * 60 }

\* A slot of the array of Promise.all whose promise has not settled.
Pending == [js |-> "pending"]

\* data.itemSummaries of a successful search: the first one to MaxItems
\* items of the catalogue, the last of them first.
SearchResults == { [i \in 1..n |-> Summary(n + 1 - i)] : n \in 1..MaxItems }

\* The catalogue's index of an item.
CatalogueIndex(item) ==
    CHOOSE k \in 1..Len(ItemNames) : Str(ItemNames[k]) = item.itemId

\* Error messages, as lists of the parts they are put together from.
OAuthError == <<"Failed to get OAuth token. Check your EBAY_APP_ID and EBAY_CERT_ID.">>
NoItemsError == <<"No items found in this category">>
InvalidItemError == <<"Invalid item data format - cache may be outdated">>
NotAnArrayError == <<"Cannot read properties of undefined (reading 'map')">>

\* Messages of the errors axios raises for a request that failed: a
\* response that is not 2xx, and no response.
UpstreamErrors == { <<"Request failed with status code 500">>, <<"Network Error">> }

\* Mutant of FetchError: the message of the original error is dropped.
FetchError_Generic(error) == <<"Failed to fetch data from eBay">>

\* findItemsByCategory, lines 107-110: the catch block wraps every error.
FetchError(error) == <<"Failed to fetch data from eBay: ">> \o error

(***************************************************************************)
(* Category statistics: calculateCategoryStats, the copy of the API        *)
(* (ebayClient.js:391-419) and the copy of the command line tool           *)
(* (src/utils/trendAnalyzer.js:55-83).  Amounts are in cents; a quotient   *)
(* is kept as numerator and denominator.                                   *)
(***************************************************************************)
NegInfinity == [k |-> "-inf"]
Quotient(num, den) == [k |-> "quot", num |-> num, den |-> den]

\* parseInt(v) of a number, of decimal text, of other text.
parseInt(v) ==
    IF v.js = "num" THEN Finite(v.n)
    ELSE IF v.js = "str" /\ "dec" \in DOMAIN v THEN Finite(v.dec)
    ELSE NotANumber

\* a + b
JsAdd(a, b) ==
    IF a.k = "nan" \/ b.k = "nan" THEN NotANumber ELSE Finite(a.n + b.n)

\* a / n for a sum a and a length n
JsDivide(a, n) ==
    IF a.k = "nan" THEN NotANumber
    ELSE IF n = 0 THEN (IF a.n = 0 THEN NotANumber
                        ELSE IF a.n > 0 THEN Infinity ELSE NegInfinity)
    ELSE Quotient(a.n, n)

\* Mutant of Positive: a price of zero passes the filter.
Positive_OrZero(p) == p.k = "num" /\ p.n >= 0

\* p => p > 0
Positive(p) == p.k = "num" /\ p.n > 0

\* items.map(item => parseFloat(item.price?.value || 0)).filter(p => p > 0)
prices(items) ==
    SelectSeq([i \in 1..Len(items) |-> parseFloat(JsOr(PriceValue(items[i]), Num(0)))],
              Positive)

\* Mutant of watchers: only the items with a price are counted.
watchers_OfPricedItems(items) ==
    LET priced == SelectSeq(items, LAMBDA item : PriceValue(item) # Undefined)
    IN [i \in 1..Len(priced) |-> parseInt(JsOr(Prop(priced[i], "watchCount"), Num(0)))]

\* items.map(item => parseInt(item.watchCount || 0))
watchers(items) ==
    [i \in 1..Len(items) |-> parseInt(JsOr(Prop(items[i], "watchCount"), Num(0)))]

\* seq.reduce((a, b) => a + b, 0)
RECURSIVE SumOf(_, _)
SumOf(seq, n) == IF n = 0 THEN Finite(0) ELSE JsAdd(SumOf(seq, n - 1), seq[n])

\* Math.min(...seq) and Math.max(...seq) of numbers
MathMin(seq) ==
    IF seq = <<>> THEN Infinity
    ELSE Finite(CHOOSE m \in { seq[i].n : i \in 1..Len(seq) } :
                    \A i \in 1..Len(seq) : m <= seq[i].n)
MathMax(seq) ==
    IF seq = <<>> THEN NegInfinity
    ELSE Finite(CHOOSE m \in { seq[i].n : i \in 1..Len(seq) } :
                    \A i \in 1..Len(seq) : m >= seq[i].n)

\* The result for no items (ebayClient.js:393-400, trendAnalyzer.js:57-64).
ZeroStats ==
    [avgPrice |-> Finite(0), minPrice |-> Finite(0), maxPrice |-> Finite(0),
     totalListings |-> Finite(0), totalWatchers |-> Finite(0), avgWatchers |-> Finite(0)]

\* trendAnalyzer.js:66-82
UncheckedStats(list) ==
    LET ps == prices(list)
        ws == watchers(list)
    IN [avgPrice |-> JsDivide(SumOf(ps, Len(ps)), Len(ps)),
        minPrice |-> MathMin(ps),
        maxPrice |-> MathMax(ps),
        totalListings |-> Finite(Len(list)),
        totalWatchers |-> SumOf(ws, Len(ws)),
        avgWatchers |-> JsDivide(SumOf(ws, Len(ws)), Len(ws))]

\* ebayClient.js:403-418
CheckedStats(list) ==
    LET ps == prices(list)
        ws == watchers(list)
    IN [avgPrice |-> IF Len(ps) > 0 THEN JsDivide(SumOf(ps, Len(ps)), Len(ps)) ELSE Finite(0),
        minPrice |-> IF Len(ps) > 0 THEN MathMin(ps) ELSE Finite(0),
        maxPrice |-> IF Len(ps) > 0 THEN MathMax(ps) ELSE Finite(0),
        totalListings |-> Finite(Len(list)),
        totalWatchers |-> SumOf(ws, Len(ws)),
        avgWatchers |-> IF Len(ws) > 0 THEN JsDivide(SumOf(ws, Len(ws)), Len(ws))
                        ELSE Finite(0)]

\* Mutant of trendAnalyzerStats: the check for no items is missing.
trendAnalyzerStats_NoEmptyCheck(items) ==
    UncheckedStats(IF Truthy(items) THEN items.a ELSE <<>>)

\* calculateCategoryStats of src/utils/trendAnalyzer.js
trendAnalyzerStats(items) ==
    IF ~Truthy(items) \/ Len(items.a) = 0 THEN ZeroStats ELSE UncheckedStats(items.a)

\* calculateCategoryStats of packages/api/src/api/ebayClient.js
calculateCategoryStats(items) ==
    IF ~Truthy(items) \/ Len(items.a) = 0 THEN ZeroStats ELSE CheckedStats(items.a)

\* res.status(404), and the handler's catch block, server.js:124-130:
\* res.status(500).json({ success: false, error: error.message })
NotFound == [status |-> 404]
ServerError(error) == [status |-> 500, error |-> error]

\* Mutant of Response: the statistics of a response served from the cache
\* are left at zero.
Response_CachedStatsZero(items, isCached) ==
    IF \E i \in 1..Len(items) : ExtractThrows(items[i])
    THEN ServerError(InvalidItemError)
    ELSE [status |-> 200, cached |-> isCached,
          items |-> [i \in 1..Len(items) |-> extractMetrics(items[i])],
          stats |-> IF isCached THEN ZeroStats ELSE calculateCategoryStats(Arr(items))]

\* res.json({ ..., items: items.map(extractMetrics),
\*            stats: calculateCategoryStats(items), metadata: { cached } }),
\* or the catch block's 500 when extractMetrics throws (server.js:80-91,
\* 114-130).
Response(items, isCached) ==
    IF \E i \in 1..Len(items) : ExtractThrows(items[i])
    THEN ServerError(InvalidItemError)
    ELSE [status |-> 200, cached |-> isCached,
          items |-> [i \in 1..Len(items) |-> extractMetrics(items[i])],
          stats |-> calculateCategoryStats(Arr(items))]

\* Mutant: the response built from the cache is marked as fresh.
CachedResponse_MarkedFresh(cached) ==
    LET items == Prop(cached, "items")
    IN IF IsArray(items) THEN Response(items.a, FALSE)
       ELSE ServerError(NotAnArrayError)

\* server.js:78-91: the response built from the cached result; cached.items
\* that is not an array makes .map throw.
CachedResponse(cached) ==
    LET items == Prop(cached, "items")
    IN IF IsArray(items) THEN Response(items.a, TRUE)
       ELSE ServerError(NotAnArrayError)

\* findItemsByCategory, lines 90-105 and server.js:106-109: the result the
\* handler stores.
Result(items) ==
    [success |-> Bool(TRUE), items |-> Arr(items), total |-> Num(Len(items))]

Init ==
    /\ now = 0
    /\ \E c \in {NoFile, Garbage} :
          files = [p \in CachePaths |->
                      IF p = getCacheFilePath(cacheKey(<<"1">>)) THEN c ELSE NoFile]
    /\ wr = [p \in Procs |-> Idle]
    /\ lastGet = NoGet
    /\ looked = {}
    /\ TokenIdle
    /\ RunIdle
    /\ FnIdle

\* A request arrives when the previous one has been answered.
NewRun ==
    /\ rpc \in {"idle", "done"}
    /\ summaries' = <<>>
    /\ ipc' = <<>>
    /\ itemDetails' = <<>>
    /\ enriched' = <<>>

\* server.js:65-72: the id is not in the table.
RequestNotFound(id) ==
    /\ NewRun
    /\ ~getCategoryById(id)
    /\ reqId' = id
    /\ resp' = NotFound
    /\ rpc' = "done"
    /\ calls' = NoCalls
    /\ exchanges' = 0
    /\ UNCHANGED <<now, files, wr, lastGet, keyVars, fnVars, accessToken, tokenExpiry,
                   tcall, lastCall, lastRet>>

\* server.js:74-91: get returns something truthy, the handler answers from
\* the cache.
RequestHit(id) ==
    /\ NewRun
    /\ getCategoryById(id)
    /\ LET r == CacheGet(files, cacheKey(id), now)
       IN /\ Truthy(r.ret)
          /\ files' = r.fs
          /\ resp' = CachedResponse(r.ret)
    /\ reqId' = id
    /\ rpc' = "done"
    /\ calls' = NoCalls
    /\ exchanges' = 0
    /\ UNCHANGED <<now, wr, lastGet, keyVars, fnVars, accessToken, tokenExpiry,
                   tcall, lastCall, lastRet>>

\* server.js:74-94 and findItemsByCategory, lines 64-74: get returns null,
\* the handler calls findItemsByCategory, which asks for the token and, if
\* one is stored and valid, sends the search.
RequestMiss(id) ==
    /\ NewRun
    /\ getCategoryById(id)
    /\ LET r == CacheGet(files, cacheKey(id), now)
       IN /\ ~Truthy(r.ret)
          /\ files' = r.fs
    /\ reqId' = id
    /\ resp' = NoResponse
    /\ IF TokenValid(accessToken, tokenExpiry, now)
       THEN /\ rpc' = "search"
            /\ calls' = [NoCalls EXCEPT !.search = 1]
            /\ exchanges' = 0
       ELSE /\ rpc' = "search_tok"
            /\ calls' = NoCalls
            /\ exchanges' = 1
    /\ UNCHANGED <<now, wr, lastGet, keyVars, fnVars, accessToken, tokenExpiry,
                   tcall, lastCall, lastRet>>

\* getAccessToken, lines 45-49, and findItemsByCategory, lines 74-82: the
\* exchange succeeded, the search is sent.
SearchTokOk(life) ==
    /\ rpc = "search_tok"
    /\ accessToken' = Token(now, life)
    /\ tokenExpiry' = StoredExpiry(life, now)
    /\ calls' = [calls EXCEPT !.search = @ + 1]
    /\ rpc' = "search"
    /\ UNCHANGED <<now, cacheVars, keyVars, fnVars, exchanges, tcall, lastCall, lastRet,
                   reqId, summaries, ipc, itemDetails, enriched, resp>>

\* getAccessToken, lines 51-54, findItemsByCategory, lines 107-110, and
\* server.js:124-130: the exchange failed, the request is answered 500.
SearchTokFail ==
    /\ rpc = "search_tok"
    /\ resp' = ServerError(FetchError(OAuthError))
    /\ rpc' = "done"
    /\ UNCHANGED <<now, cacheVars, keyVars, fnVars, tokenVars,
                   reqId, summaries, ipc, itemDetails, enriched, calls>>

\* findItemsByCategory, lines 76-82 and 107-110: the search request
\* failed, the request is answered 500.
SearchFail(error) ==
    /\ rpc = "search"
    /\ resp' = ServerError(FetchError(error))
    /\ rpc' = "done"
    /\ UNCHANGED <<now, cacheVars, keyVars, fnVars, tokenVars,
                   reqId, summaries, ipc, itemDetails, enriched, calls>>

\* findItemsByCategory, lines 84-88 and 107-110: the search answered
\* without items, the request is answered 500.
SearchEmpty ==
    /\ rpc = "search"
    /\ resp' = ServerError(FetchError(NoItemsError))
    /\ rpc' = "done"
    /\ UNCHANGED <<now, cacheVars, keyVars, fnVars, tokenVars,
                   reqId, summaries, ipc, itemDetails, enriched, calls>>

\* Mutant: results are collected in the order the callbacks finish.
PromiseAllStore_Push(arr, i, v) ==
    LET j == CHOOSE k \in 1..Len(arr) :
                 arr[k] = Pending /\ \A m \in 1..(k - 1) : arr[m] # Pending
    IN [arr EXCEPT ![j] = v]

\* Promise.all(items.map(...)), line 211: the value the i-th callback
\* returns becomes the i-th element of the array.
PromiseAllStore(arr, i, v) == [arr EXCEPT ![i] = v]

\* findItemsByCategory, lines 84-105, server.js:96-103 and
\* enrichItemsWithDetails, lines 211-213: the search returned summaries;
\* items.map starts the callback of every summary, each calls
\* getItemDetails, which asks for the token and, if one is stored and
\* valid, sends its detail lookup.
SearchOk(list) ==
    /\ rpc = "search"
    /\ summaries' = list
    /\ itemDetails' = [i \in 1..Len(list) |-> Null]
    /\ enriched' = [i \in 1..Len(list) |-> Pending]
    /\ rpc' = "enrich"
    /\ IF TokenValid(accessToken, tokenExpiry, now)
       THEN /\ ipc' = [i \in 1..Len(list) |-> "detail"]
            /\ calls' = [calls EXCEPT !.detail = @ + Len(list)]
            /\ UNCHANGED exchanges
       ELSE /\ ipc' = [i \in 1..Len(list) |-> "tok"]
            /\ exchanges' = exchanges + Len(list)
            /\ UNCHANGED calls
    /\ UNCHANGED <<now, cacheVars, keyVars, fnVars, accessToken, tokenExpiry,
                   tcall, lastCall, lastRet, reqId, resp>>

\* Mutant of HandlerTail: a write that failed fails the request.
HandlerTail_FailedWriteFails(all, set) ==
    /\ files' = set.fs
    /\ resp' = IF set.ret THEN Response(all, FALSE)
               ELSE ServerError(<<"Error writing cache">>)
    /\ rpc' = "done"

\* server.js:105-123, after enrichItemsWithDetails has returned all: the
\* handler calls cache.set, whose outcome is set, ignores what it
\* returns, and answers.
HandlerTail(all, set) ==
    /\ files' = set.fs
    /\ resp' = Response(all, FALSE)
    /\ rpc' = "done"

\* Mutant of Settle: the handler goes on as soon as one callback has
\* returned.
Settle_AfterFirst(i, v) ==
    LET all == PromiseAllStore(enriched, i, v)
        pcs == [ipc EXCEPT ![i] = "done"]
    IN /\ enriched' = all
       /\ ipc' = pcs
       /\ IF \E j \in 1..Len(pcs) : pcs[j] = "done"
          THEN HandlerTail(all, [ret |-> TRUE,
                                 fs |-> CacheSet(files, cacheKey(reqId), Result(all), now)])
          ELSE UNCHANGED <<files, resp, rpc>>

\* The i-th callback returns v (lines 223-267).  When it is the last one,
\* Promise.all resolves and the handler goes on (server.js:101-123): it
\* stores the result and answers.
Settle(i, v) ==
    LET all == PromiseAllStore(enriched, i, v)
        pcs == [ipc EXCEPT ![i] = "done"]
    IN /\ enriched' = all
       /\ ipc' = pcs
       /\ IF \A j \in 1..Len(pcs) : pcs[j] = "done"
          THEN HandlerTail(all, [ret |-> TRUE,
                                 fs |-> CacheSet(files, cacheKey(reqId), Result(all), now)])
          ELSE UNCHANGED <<files, resp, rpc>>

\* getAccessToken, lines 45-49, and getItemDetails, lines 121-126: the
\* exchange of the i-th callback succeeded, its detail lookup is sent.
ItemTokOk(i, life) ==
    /\ rpc = "enrich" /\ i \in 1..Len(ipc) /\ ipc[i] = "tok"
    /\ accessToken' = Token(now, life)
    /\ tokenExpiry' = StoredExpiry(life, now)
    /\ ipc' = [ipc EXCEPT ![i] = "detail"]
    /\ calls' = [calls EXCEPT !.detail = @ + 1]
    /\ UNCHANGED <<now, cacheVars, keyVars, fnVars, exchanges, tcall, lastCall, lastRet,
                   rpc, reqId, summaries, itemDetails, enriched, resp>>

\* getAccessToken, lines 51-54, and getItemDetails, lines 141-144: the
\* exchange failed, getItemDetails returns null.
ItemTokFail(i) ==
    /\ rpc = "enrich" /\ i \in 1..Len(ipc) /\ ipc[i] = "tok"
    /\ Settle(i, EnrichedItem(summaries[i], Null))
    /\ UNCHANGED <<now, wr, lastGet, keyVars, fnVars, tokenVars,
                   reqId, summaries, itemDetails, calls>>

\* getItemDetails, lines 128-139, and enrichItemsWithDetails, lines
\* 213-221: the detail lookup succeeded.  For an item of a group the
\* callback calls getItemGroupDetails, which asks for the token and, if one
\* is stored and valid, sends the group lookup.
DetailOk(i, grouped) ==
    /\ rpc = "enrich" /\ i \in 1..Len(ipc) /\ ipc[i] = "detail"
    /\ LET d == Detail(CatalogueIndex(summaries[i]), grouped)
       IN /\ itemDetails' = [itemDetails EXCEPT ![i] = d]
          /\ IF Prop(d, "primaryItemGroup") # Undefined
             THEN /\ IF TokenValid(accessToken, tokenExpiry, now)
                     THEN /\ ipc' = [ipc EXCEPT ![i] = "group"]
                          /\ calls' = [calls EXCEPT !.group = @ + 1]
                          /\ UNCHANGED exchanges
                     ELSE /\ ipc' = [ipc EXCEPT ![i] = "gtok"]
                          /\ exchanges' = exchanges + 1
                          /\ UNCHANGED calls
                  /\ UNCHANGED <<files, enriched, resp, rpc>>
             ELSE /\ Settle(i, EnrichedItem(summaries[i], d))
                  /\ UNCHANGED <<exchanges, calls>>
    /\ UNCHANGED <<now, wr, lastGet, keyVars, fnVars, accessToken, tokenExpiry,
                   tcall, lastCall, lastRet, reqId, summaries>>

\* getItemDetails, lines 141-144: the detail lookup failed, getItemDetails
\* returns null.
DetailFail(i) ==
    /\ rpc = "enrich" /\ i \in 1..Len(ipc) /\ ipc[i] = "detail"
    /\ Settle(i, EnrichedItem(summaries[i], Null))
    /\ UNCHANGED <<now, wr, lastGet, keyVars, fnVars, tokenVars,
                   reqId, summaries, itemDetails, calls>>

\* getAccessToken, lines 45-49, and getItemGroupDetails, lines 152-160:
\* the exchange succeeded, the group lookup is sent.
GroupTokOk(i, life) ==
    /\ rpc = "enrich" /\ i \in 1..Len(ipc) /\ ipc[i] = "gtok"
    /\ accessToken' = Token(now, life)
    /\ tokenExpiry' = StoredExpiry(life, now)
    /\ ipc' = [ipc EXCEPT ![i] = "group"]
    /\ calls' = [calls EXCEPT !.group = @ + 1]
    /\ UNCHANGED <<now, cacheVars, keyVars, fnVars, exchanges, tcall, lastCall, lastRet,
                   rpc, reqId, summaries, itemDetails, enriched, resp>>

\* getAccessToken, lines 51-54, and getItemGroupDetails, lines 199-202: the
\* exchange failed, getItemGroupDetails returns null and the callback keeps
\* the item's own details.
GroupTokFail(i) ==
    /\ rpc = "enrich" /\ i \in 1..Len(ipc) /\ ipc[i] = "gtok"
    /\ Settle(i, EnrichedItem(summaries[i], itemDetails[i]))
    /\ UNCHANGED <<now, wr, lastGet, keyVars, fnVars, tokenVars,
                   reqId, summaries, itemDetails, calls>>

\* getItemGroupDetails, lines 162-197, and enrichItemsWithDetails, lines
\* 216-221: the group lookup succeeded; unless the group is empty its
\* aggregate replaces the item's details.
GroupOk(i, empty) ==
    /\ rpc = "enrich" /\ i \in 1..Len(ipc) /\ ipc[i] = "group"
    /\ LET variants == IF empty THEN <<>>
                       ELSE GroupItems(CatalogueIndex(summaries[i]))
           groupDetails == AggregateGroup(variants)
           d == IF groupDetails # Null THEN groupDetails ELSE itemDetails[i]
       IN /\ itemDetails' = [itemDetails EXCEPT ![i] = d]
          /\ Settle(i, EnrichedItem(summaries[i], d))
    /\ UNCHANGED <<now, wr, lastGet, keyVars, fnVars, tokenVars,
                   reqId, summaries, calls>>

\* Mutant of GroupFail: a failed group lookup discards the item's own
\* details.
GroupFail_DropsDetail(i) ==
    /\ rpc = "enrich" /\ i \in 1..Len(ipc) /\ ipc[i] = "group"
    /\ Settle(i, EnrichedItem(summaries[i], Null))
    /\ UNCHANGED <<now, wr, lastGet, keyVars, fnVars, tokenVars,
                   reqId, summaries, itemDetails, calls>>

\* getItemGroupDetails, lines 199-202: the group lookup failed.
GroupFail(i) ==
    /\ rpc = "enrich" /\ i \in 1..Len(ipc) /\ ipc[i] = "group"
    /\ Settle(i, EnrichedItem(summaries[i], itemDetails[i]))
    /\ UNCHANGED <<now, wr, lastGet, keyVars, fnVars, tokenVars,
                   reqId, summaries, itemDetails, calls>>

\* Time passes.  The clock counts hours and a run takes seconds: it
\* advances between two runs.
RunTick ==
    /\ rpc \in {"idle", "done"}
    /\ now < MaxTicks * HourMs
    /\ now' = now + HourMs
    /\ UNCHANGED <<cacheVars, keyVars, fnVars, tokenVars, runVars>>

Slots == 1..MaxItems

Next ==
    \/ \E id \in RunIds : RequestNotFound(id)
    \/ \E id \in RunIds : RequestHit(id)
    \/ \E id \in RunIds : RequestMiss(id)
    \/ \E life \in RunLifetimes : SearchTokOk(life)
    \/ SearchTokFail
    \/ \E list \in SearchResults : SearchOk(list)
    \/ \E error \in UpstreamErrors : SearchFail(error)
    \/ SearchEmpty
    \/ \E i \in Slots, life \in RunLifetimes : ItemTokOk(i, life)
    \/ \E i \in Slots : ItemTokFail(i)
    \/ \E i \in Slots, grouped \in BOOLEAN : DetailOk(i, grouped)
    \/ \E i \in Slots : DetailFail(i)
    \/ \E i \in Slots, life \in RunLifetimes : GroupTokOk(i, life)
    \/ \E i \in Slots : GroupTokFail(i)
    \/ \E i \in Slots, empty \in BOOLEAN : GroupOk(i, empty)
    \/ \E i \in Slots : GroupFail(i)
    \/ RunTick

Spec == Init /\ [][Next]_vars

(***************************************************************************)
(* Claims about a run.                                                     *)
(***************************************************************************)
\* Detail lookups sent and not yet answered.
InFlight == Cardinality({ i \in 1..Len(ipc) : ipc[i] = "detail" })

\* C1: while enrichItemsWithDetails runs over N summaries, N greater than
\* the worker cap W, at most W detail lookups are in flight at a time.
C1_InFlightBounded ==
    (rpc = "enrich" /\ Len(summaries) > WorkerCap) => InFlight <= WorkerCap

\* A run whose search returned summaries has ended.
Enriched == rpc = "done" /\ summaries # <<>>

\* C2: a run whose search returned n >= 1 summaries ends with success and
\* n items, whichever detail and group lookups (and token exchanges behind
\* them) failed; an item whose detail lookup failed is returned as its
\* summary, and nothing is answered before the last lookup has ended.
C2_NoItemDropped ==
    /\ Enriched =>
          /\ resp.status = 200
          /\ Len(enriched) = Len(summaries)
          /\ Len(resp.items) = Len(summaries)
          /\ \A i \in 1..Len(summaries) :
                itemDetails[i] = Null =>
                    /\ enriched[i] = summaries[i]
                    /\ resp.items[i] = extractMetrics(summaries[i])
    /\ rpc = "enrich" => resp = NoResponse

\* C2 witness: a run over at least two summaries has ended with success;
\* the detail lookup of one item failed, that of another succeeded.
C2_Witness ==
    /\ Enriched
    /\ resp.status = 200
    /\ Len(resp.items) >= 2
    /\ \E i, j \in 1..Len(summaries) :
          /\ itemDetails[i] = Null
          /\ enriched[i] = summaries[i]
          /\ itemDetails[j] # Null
          /\ enriched[j] # summaries[j]

\* C3: in whatever order the lookups end, slot i of the output holds the
\* enrichment of the i-th summary of the search, and so does item i of the
\* response.
C3_SlotsKeepOrder ==
    /\ \A i \in 1..Len(enriched) :
          enriched[i] # Pending =>
              /\ Prop(enriched[i], "itemId") = summaries[i].itemId
              /\ enriched[i] = EnrichedItem(summaries[i], itemDetails[i])
    /\ (Enriched /\ resp.status = 200) =>
          \A i \in 1..Len(summaries) :
              resp.items[i].itemId = summaries[i].itemId

\* C3 witness: the callback of the second summary has returned before the
\* callback of the first, and its result is in the second slot.
C3_Witness ==
    /\ rpc = "enrich"
    /\ Len(enriched) >= 2
    /\ enriched[1] = Pending
    /\ enriched[2] # Pending
    /\ enriched[2].itemId = summaries[2].itemId
    /\ summaries[1].itemId # summaries[2].itemId

\* The cache file of category id holds, at time t, an unexpired entry that
\* set wrote for a result: parseable, with a numeric timestamp not older
\* than the cache duration and a payload that has an item list.
ValidEntry(fs, id, t) ==
    LET content == fs[getCacheFilePath(cacheKey(id))]
    IN /\ content.kind = "text"
       /\ Prop(content.val, "timestamp").js = "num"
       /\ t - content.val.timestamp.n <= cacheDuration
       /\ Truthy(Prop(content.val, "data"))
       /\ IsArray(Prop(Prop(content.val, "data"), "items"))

\* The items of that entry, as a response reports them.
EntryItems(fs, id) ==
    LET items == fs[getCacheFilePath(cacheKey(id))].val.data.items.a
    IN [i \in 1..Len(items) |-> extractMetrics(items[i])]

\* A request for category id is received in this step.
Received(id) ==
    /\ rpc \in {"idle", "done"}
    /\ now' = now
    /\ reqId' = id
    /\ getCategoryById(id)

\* C4: a request that finds an unexpired, parseable entry is answered at
\* once with that entry's items, marked as cached, and no token exchange,
\* search, detail or group lookup is sent for it; a successful response is
\* marked as fresh exactly when its run sent the search.
C4_ValidEntryServed ==
    /\ [][\A id \in RunIds :
            (Received(id) /\ ValidEntry(files, id, now)) =>
                /\ rpc' = "done"
                /\ resp'.status = 200
                /\ resp'.cached
                /\ resp'.items = EntryItems(files, id)
                /\ calls' = NoCalls
                /\ exchanges' = 0
                /\ files' = files]_vars
    /\ [](resp.status = 200 => (~resp.cached <=> calls.search = 1))

\* C4 witness: an entry written an hour or more before the request was
\* served from the cache without any upstream call.
C4_Witness ==
    /\ rpc = "done"
    /\ resp.status = 200
    /\ resp.cached
    /\ ValidEntry(files, reqId, now)
    /\ now > files[getCacheFilePath(cacheKey(reqId))].val.timestamp.n
    /\ resp.items = EntryItems(files, reqId)
    /\ Len(resp.items) >= 1
    /\ calls = NoCalls
    /\ exchanges = 0

\* C4, second case: a response marked as fresh, after a search.
C4_FreshAfterSearch ==
    /\ rpc = "done"
    /\ resp.status = 200
    /\ ~resp.cached
    /\ calls.search = 1

\* C12: a token exchange that fails inside the detail or group lookup of
\* an item ends the run with the authentication error, as one that fails
\* before the search does.
C12_AuthFailureFatal ==
    [][\A i \in Slots :
          (ItemTokFail(i) \/ GroupTokFail(i)) =>
              /\ rpc' = "done"
              /\ resp'.status = 500
              /\ resp'.error = FetchError(OAuthError)]_vars

\* C12, the part that holds: a run whose exchange failed before the search
\* has ended with the authentication error.
C12_SearchAuthFailureFatal ==
    (rpc = "done" /\ exchanges = 1 /\ calls.search = 0 /\ resp.status # 404
                  /\ resp.status # 200) =>
        resp = ServerError(FetchError(OAuthError))

(***************************************************************************)
(* Exchange specification: the token specification with a token endpoint   *)
(* whose 2xx answer may lack access_token or expires_in                    *)
(* (getAccessToken, lines 45-49, reads both without a check).              *)
(***************************************************************************)
\* response.data of the token endpoint at time t: each of the two
\* properties is there or not.
TokenData(hasToken, hasLife, t) ==
    [access_token |-> IF hasToken THEN Token(t, 2 * SafetyMarginSec) ELSE Undefined,
     expires_in |-> IF hasLife THEN Num(2 * SafetyMarginSec) ELSE Undefined]

\* Date.now() + (response.data.expires_in - 300) * 1000: NaN when
\* expires_in is undefined.
StoredExpiryOf(data, t) ==
    IF data.expires_in.js = "num" THEN StoredExpiry(data.expires_in.n, t) ELSE NaN

\* getAccessToken, lines 45-49: the endpoint answers 2xx without one of
\* the two properties, or without both.
TokExchangeIncomplete(c, hasToken, hasLife) ==
    /\ tcall[c] = "wait"
    /\ ~(hasToken /\ hasLife)
    /\ LET data == TokenData(hasToken, hasLife, now)
       IN /\ accessToken' = data.access_token
          /\ tokenExpiry' = StoredExpiryOf(data, now)
    /\ tcall' = [tcall EXCEPT ![c] = "idle"]
    /\ lastRet' = [done |-> TRUE, ok |-> TRUE, at |-> now, token |-> accessToken',
                   fresh |-> TRUE, stored |-> tokenExpiry']
    /\ UNCHANGED <<now, cacheVars, keyVars, fnVars, runVars, exchanges, lastCall>>

ExchangeNext ==
    \/ TokenNext
    \/ \E c \in Callers, hasToken \in BOOLEAN, hasLife \in BOOLEAN :
          TokExchangeIncomplete(c, hasToken, hasLife)

SpecExchange == TokenInit /\ [][ExchangeNext]_vars

\* C11: getAccessToken never returns a token without a value, and never
\* stores a token whose value or expiry is missing: a failed or incomplete
\* exchange ends in an error.
C11_NoPartialToken ==
    /\ (lastRet.done /\ lastRet.ok) => lastRet.token.js = "str"
    /\ accessToken.js \in {"null", "str"}
    /\ tokenExpiry.js \in {"null", "num"}
    /\ accessToken.js = "str" <=> tokenExpiry.js = "num"

\* C11, the part that holds: a failed exchange ends in an error and no
\* token is returned.
C11_FailedExchangeThrows ==
    [][\A c \in Callers : TokExchangeFail(c) => (~lastRet'.ok /\ accessToken' = accessToken)]_vars

(***************************************************************************)
(* Group specification: getItemGroupDetails aggregates the variations the  *)
(* group endpoint returned (ebayClient.js:162-197).                        *)
(***************************************************************************)
\* The other components at rest.
RestIdle ==
    /\ now = 0
    /\ files = <<>>
    /\ wr = <<>>
    /\ lastGet = Null
    /\ looked = {}
    /\ TokenIdle
    /\ RunIdle

\* item.price of a variation: missing, "0.00", text that is no number,
\* "7.50", "9.00".
PriceChoices ==
    { Undefined, [value |-> PriceText(0)], [value |-> NoNumberText],
      [value |-> PriceText(750)], [value |-> PriceText(900)] }

\* item.estimatedAvailabilities of a variation: missing, both quantities,
\* the sold quantity only.
AvailabilityChoices ==
    { Undefined,
      Arr(<<[estimatedSoldQuantity |-> Num(2), estimatedRemainingQuantity |-> Num(1),
             availabilityThreshold |-> Num(10)]>>),
      Arr(<<[estimatedSoldQuantity |-> Num(3)]>>) }

\* The j-th element of data.items.
VariantOf(j, price, avail) ==
    [itemId |-> Str(VariationNames[j]), title |-> Str("variation"),
     watchCount |-> Num(j), price |-> price, estimatedAvailabilities |-> avail]

\* data.items holds up to MaxVariants variations.
GroupInit ==
    /\ RestIdle
    /\ \E n \in 0..MaxVariants :
          \E c \in [1..n -> PriceChoices \X AvailabilityChoices] :
              args = [j \in 1..n |-> VariantOf(j, c[j][1], c[j][2])]
    /\ result = NotCalled

\* getItemGroupDetails, lines 162-197, on the response of the endpoint.
GroupAggregate ==
    /\ result = NotCalled
    /\ result' = AggregateGroup(args)
    /\ UNCHANGED <<now, cacheVars, keyVars, tokenVars, runVars, args>>

GroupNext == GroupAggregate

SpecGroup == GroupInit /\ [][GroupNext]_vars

\* The variations whose price parses to a number, and those numbers.
Parses(item) ==
    PriceValue(item) # Undefined /\ parseFloat(PriceValue(item)).k = "num"
ParsedPrice(item) == parseFloat(PriceValue(item)).n

\* Variation j has the lowest parsed price of the list and is the first
\* that has it.
FirstCheapest(all, j) ==
    /\ Parses(all[j])
    /\ \A m \in 1..Len(all) :
          Parses(all[m]) =>
              /\ ParsedPrice(all[j]) <= ParsedPrice(all[m])
              /\ m < j => ParsedPrice(all[j]) < ParsedPrice(all[m])

\* C13: the representative of a non-empty list of variations is the first
\* of the variations with the lowest parsed price, whatever the variations
\* without a price, with price zero or with an unparseable price are.
C13_CheapestFirst ==
    (result # NotCalled /\ \E j \in 1..Len(args) : Parses(args[j])) =>
        \E j \in 1..Len(args) :
            FirstCheapest(args, j) /\ result.itemId = args[j].itemId

\* C13, the part that holds: when the first variation's price parses, or
\* no price is unparseable text, the representative is the first cheapest.
C13_CheapestFirstParseable ==
    (/\ result # NotCalled
     /\ \E j \in 1..Len(args) : Parses(args[j])
     /\ \A j \in 1..Len(args) : PriceValue(args[j]) # NoNumberText) =>
        \E j \in 1..Len(args) :
            FirstCheapest(args, j) /\ result.itemId = args[j].itemId

\* The quantity q a variation reports, 0 when it reports none.
ReportedQuantity(item, q) ==
    IF item.estimatedAvailabilities = Undefined THEN 0
    ELSE IF q \in DOMAIN item.estimatedAvailabilities.a[1]
         THEN item.estimatedAvailabilities.a[1][q].n
         ELSE 0

\* The total of quantity q over the first n variations.
RECURSIVE TotalOf(_, _, _)
TotalOf(all, n, q) ==
    IF n = 0 THEN 0 ELSE TotalOf(all, n - 1, q) + ReportedQuantity(all[n], q)

\* The fields of the first availability record other than the two totals.
OtherAvailabilityFields(item) ==
    IF item.estimatedAvailabilities = Undefined THEN {}
    ELSE DOMAIN item.estimatedAvailabilities.a[1]
             \ {"estimatedSoldQuantity", "estimatedRemainingQuantity"}

\* C14: the aggregated result of a non-empty list of variations carries the
\* sums of the sold and of the remaining quantities over all variations (a
\* variation without the quantity counts as 0), and every other field is
\* the representative's.
C14_QuantitiesSummed ==
    (result # NotCalled /\ args # <<>>) =>
        LET ea == result.estimatedAvailabilities.a
        IN /\ Len(ea) = 1
           /\ ea[1].estimatedSoldQuantity =
                  Num(TotalOf(args, Len(args), "estimatedSoldQuantity"))
           /\ ea[1].estimatedRemainingQuantity =
                  Num(TotalOf(args, Len(args), "estimatedRemainingQuantity"))
           /\ \E j \in 1..Len(args) :
                 /\ DOMAIN result = DOMAIN args[j]
                 /\ \A f \in DOMAIN args[j] \ {"estimatedAvailabilities"} :
                       result[f] = args[j][f]
                 /\ DOMAIN ea[1] = OtherAvailabilityFields(args[j])
                        \cup {"estimatedSoldQuantity", "estimatedRemainingQuantity"}
                 /\ \A g \in OtherAvailabilityFields(args[j]) :
                       ea[1][g] = args[j].estimatedAvailabilities.a[1][g]

\* Three variations, one of them without quantities and one without the
\* remaining quantity, have been aggregated: 2 + 3 sold, 1 remaining.
C14_Witness ==
    /\ result # NotCalled
    /\ Len(args) = 3
    /\ args[1].estimatedAvailabilities = Undefined
    /\ ReportedQuantity(args[2], "estimatedSoldQuantity") = 2
    /\ ReportedQuantity(args[3], "estimatedSoldQuantity") = 3
    /\ result.estimatedAvailabilities.a[1].estimatedSoldQuantity = Num(5)
    /\ result.estimatedAvailabilities.a[1].estimatedRemainingQuantity = Num(1)

(***************************************************************************)
(* Group lookups of a run.                                                 *)
(***************************************************************************)
\* The callback of slot i is inside getItemGroupDetails.
InGroupLookup(i) == i \in 1..Len(ipc) /\ ipc[i] \in {"gtok", "group"}

\* The slots whose group request is sent in a step.
GroupRequestsSent ==
    { i \in 1..Len(ipc) : ipc[i] # "group" /\ ipc'[i] = "group" }

\* The fields an enriched item takes from the details d.
CarriesDetail(item, d) ==
    /\ item.price = d.price
    /\ item.title = d.title
    /\ item.watchCount = d.watchCount
    /\ item.quantitySold = d.estimatedAvailabilities.a[1].estimatedSoldQuantity
    /\ item.estimatedRemainingQuantity =
           d.estimatedAvailabilities.a[1].estimatedRemainingQuantity

\* C15: a successful detail lookup that names a group starts one group
\* lookup for the item, and nothing else starts one; the lookup is not
\* repeated (a slot that has finished changes no more) and sends one
\* request; when it returns variations the item carries the aggregated
\* representative (7.50, 6 sold), when it fails or returns none the item
\* carries its own detail.  The conjuncts after the first speak about the
\* slots that change in the step.
C15_GroupLookup ==
    [][IF rpc # "enrich"
       THEN \A i \in 1..Len(ipc') : ipc'[i] \notin {"gtok", "group"}
       ELSE
       /\ calls'.group = calls.group + Cardinality(GroupRequestsSent)
       /\ \A i \in 1..Len(ipc) :
          (ipc'[i] # ipc[i] \/ itemDetails'[i] # itemDetails[i]) =>
          /\ (/\ ipc[i] = "detail"
              /\ itemDetails'[i] # Null
              /\ itemDetails'[i].primaryItemGroup # Undefined) =>
                 InGroupLookup(i)'
          /\ (~InGroupLookup(i) /\ InGroupLookup(i)') =>
                 /\ ipc[i] = "detail"
                 /\ itemDetails'[i] # Null
                 /\ itemDetails'[i].primaryItemGroup # Undefined
          /\ (ipc[i] \in {"tok", "detail"} /\ ipc'[i] = "done") =>
                 \/ itemDetails'[i] = Null
                 \/ itemDetails'[i].primaryItemGroup = Undefined
          /\ ipc[i] = "group" => ipc'[i] = "done"
          /\ ipc[i] = "gtok" => ipc'[i] \in {"group", "done"}
          /\ ipc[i] # "done"
          /\ (InGroupLookup(i) /\ ipc'[i] = "done") =>
                 /\ \/ /\ itemDetails'[i].itemId = Str("V2")
                       /\ itemDetails'[i].price = Price(750)
                       /\ itemDetails'[i].estimatedAvailabilities.a[1].estimatedSoldQuantity
                              = Num(6)
                       /\ CarriesDetail(enriched'[i], itemDetails'[i])
                    \/ ~GroupOk(i, FALSE)
                 /\ \/ /\ itemDetails'[i] = Detail(CatalogueIndex(summaries[i]), TRUE)
                       /\ CarriesDetail(enriched'[i],
                                        Detail(CatalogueIndex(summaries[i]), TRUE))
                    \/ ~(GroupOk(i, TRUE) \/ GroupFail(i) \/ GroupTokFail(i))]_vars

\* A run has ended in which one item was replaced by its group's
\* representative and another one, whose group lookup was sent and failed
\* or returned nothing, kept its own detail.
C15_Witness ==
    /\ rpc = "done" /\ resp.status = 200 /\ ~resp.cached
    /\ calls.group = 2
    /\ \E i, j \in 1..Len(enriched) :
          /\ itemDetails[i] # Null /\ itemDetails[i].itemId = Str("V2")
          /\ enriched[i].price = Price(750)
          /\ itemDetails[j] # Null /\ itemDetails[j].primaryItemGroup # Undefined
          /\ itemDetails[j].itemId = summaries[j].itemId
          /\ enriched[j].price = Price(1900)

(***************************************************************************)
(* Merge specification: the callback of enrichItemsWithDetails merges the  *)
(* details it obtained into the summary (ebayClient.js:223-267).           *)
(***************************************************************************)
\* A record without the fields whose value is undefined.
Defined(r) == [f \in { g \in DOMAIN r : r[g] # Undefined } |-> r[f]]

\* Summaries with and without title, price, image and watch count.
MergeSummaries ==
    { Defined([itemId |-> Str("A"), title |-> t, price |-> p, image |-> im,
               watchCount |-> w]) :
        t \in {Undefined, Str("summary")}, p \in {Undefined, Price(2000)},
        im \in {Undefined, [imageUrl |-> Str("summary.jpg")]},
        w \in {Undefined, Num(3)} }

\* What getItemDetails (or getItemGroupDetails) returned: null, or details
\* with and without title, price, image, watch count and availabilities.
MergeDetailsInputs ==
    {Null} \cup
    { Defined([itemId |-> Str("A"), title |-> t, price |-> p, image |-> im,
               watchCount |-> w, estimatedAvailabilities |-> ea]) :
        t \in {Undefined, Str(""), Str("detail")}, p \in {Undefined, Price(1900)},
        im \in {Undefined, [imageUrl |-> Str("detail.jpg")]},
        w \in {Undefined, Num(0), Num(5)},
        ea \in {Undefined,
                Arr(<<[estimatedSoldQuantity |-> Num(4),
                       estimatedRemainingQuantity |-> Num(6)]>>)} }

MergeInit ==
    /\ RestIdle
    /\ args \in MergeSummaries \X MergeDetailsInputs
    /\ result = NotCalled

\* The callback's return statement, lines 223-267.
Merge ==
    /\ result = NotCalled
    /\ result' = EnrichedItem(args[1], args[2])
    /\ UNCHANGED <<now, cacheVars, keyVars, tokenVars, runVars, args>>

MergeNext == Merge

SpecMerge == MergeInit /\ [][MergeNext]_vars

\* The detail's value of a field if the detail has it, else the summary's
\* if the summary has it, else undefined.
Preferred(detail, summary) ==
    IF detail # Undefined THEN detail ELSE summary

\* C16: when the detail lookup succeeded, price, title, image and watch
\* count of the enriched item are the detail's where the detail has the
\* field (for the title: a non-empty one) and the summary's where only the
\* summary has it; a summary price is never replaced by a missing value.
C16_DetailOverridesSummary ==
    (result # NotCalled /\ args[2] # Null) =>
        /\ Prop(result, "price") = Preferred(Prop(args[2], "price"), Prop(args[1], "price"))
        /\ Prop(args[2], "title") # Str("") =>
               Prop(result, "title") =
                   Preferred(Prop(args[2], "title"), Prop(args[1], "title"))
        /\ Prop(result, "imageUrl") = Preferred(ImageUrl(args[2]), ImageUrl(args[1]))
        /\ Prop(result, "watchCount") =
               Preferred(Prop(args[2], "watchCount"), Prop(args[1], "watchCount"))
        /\ Prop(result, "quantitySold") =
               FirstAvailability(args[2], "estimatedSoldQuantity")
        /\ Prop(args[1], "price") # Undefined => Prop(result, "price") # Undefined

\* C16, the part that holds: the image follows the rule, and so does the
\* title of a detail whose title is not the empty text; the sold quantity
\* is the detail's.
C16_ImageAndTitleFallBack ==
    (result # NotCalled /\ args[2] # Null) =>
        /\ Prop(result, "imageUrl") = Preferred(ImageUrl(args[2]), ImageUrl(args[1]))
        /\ Prop(args[2], "title") # Str("") =>
               Prop(result, "title") =
                   Preferred(Prop(args[2], "title"), Prop(args[1], "title"))
        /\ Prop(result, "quantitySold") =
               FirstAvailability(args[2], "estimatedSoldQuantity")

(***************************************************************************)
(* Statistics specification: both copies of calculateCategoryStats applied *)
(* to lists of items whose prices and watch counts vary.                   *)
(***************************************************************************)
\* Items with a price that is missing, "0.00", no number, negative, 7.50 or
\* 9.00 and a watch count that is missing, 2 or no number.
StatPriceChoices ==
    { Undefined, [value |-> PriceText(0)], [value |-> NoNumberText],
      [value |-> PriceText(0 - 500)], [value |-> PriceText(750)],
      [value |-> PriceText(900)] }
StatWatchChoices == { Undefined, Num(2), Str("many") }
StatItems ==
    { Defined([price |-> p, watchCount |-> w]) :
        p \in StatPriceChoices, w \in StatWatchChoices }

\* The argument is no list, or a list of up to MaxItems items.
StatsInit ==
    /\ RestIdle
    /\ \/ args = Undefined
       \/ \E n \in 0..MaxItems : \E l \in [1..n -> StatItems] : args = Arr(l)
    /\ result = NotCalled

\* analyzer.calculateCategoryStats(items), server.js:84, 118
ApiStats ==
    /\ result = NotCalled
    /\ result' = [by |-> "ebayClient", stats |-> calculateCategoryStats(args)]
    /\ UNCHANGED <<now, cacheVars, keyVars, tokenVars, runVars, args>>

\* this.analyzer.calculateCategoryStats(data.items), src/index.js:134
TrendStats ==
    /\ result = NotCalled
    /\ result' = [by |-> "trendAnalyzer", stats |-> trendAnalyzerStats(args)]
    /\ UNCHANGED <<now, cacheVars, keyVars, tokenVars, runVars, args>>

StatsNext == ApiStats \/ TrendStats

SpecStats == StatsInit /\ [][StatsNext]_vars

\* C17: for no list and for the empty list both copies return 0 in all six
\* fields.
C17_EmptyStatsZero ==
    (result # NotCalled /\ (args = Undefined \/ args = Arr(<<>>))) =>
        \A f \in {"avgPrice", "minPrice", "maxPrice", "totalListings",
                  "totalWatchers", "avgWatchers"} :
            f \in DOMAIN result.stats /\ result.stats[f] = Finite(0)

\* The command line tool's copy has been called with the empty list.
C17_Witness ==
    /\ result # NotCalled
    /\ args = Arr(<<>>)
    /\ result.by = "trendAnalyzer"
    /\ result.stats.avgWatchers = Finite(0)

\* The items whose price parses to a number greater than 0.
Qualifying(list) ==
    { i \in 1..Len(list) : Parses(list[i]) /\ ParsedPrice(list[i]) > 0 }

\* The sum of the parsed prices of the items in the set q.
RECURSIVE TotalPrice(_, _)
TotalPrice(list, q) ==
    IF q = {} THEN 0
    ELSE LET i == CHOOSE j \in q : TRUE
         IN ParsedPrice(list[i]) + TotalPrice(list, q \ {i})

\* C18: when some item's price parses to a number greater than 0, minPrice,
\* maxPrice and avgPrice are the minimum, the maximum and the mean of the
\* prices of exactly those items, in both copies.
C18_PriceStatsOverValidPrices ==
    (result # NotCalled /\ args # Undefined /\ Qualifying(args.a) # {}) =>
        LET q == Qualifying(args.a)
        IN /\ \E i \in q :
                 /\ result.stats.minPrice = Finite(ParsedPrice(args.a[i]))
                 /\ \A j \in q : ParsedPrice(args.a[i]) <= ParsedPrice(args.a[j])
           /\ \E i \in q :
                 /\ result.stats.maxPrice = Finite(ParsedPrice(args.a[i]))
                 /\ \A j \in q : ParsedPrice(args.a[i]) >= ParsedPrice(args.a[j])
           /\ result.stats.avgPrice = Quotient(TotalPrice(args.a, q), Cardinality(q))

\* The API's copy has been called with a "0.00" price, an unparseable one
\* and the prices 9.00 and 7.50: minimum 7.50, maximum 9.00, mean 16.50 / 2.
C18_Witness ==
    /\ result # NotCalled /\ result.by = "ebayClient"
    /\ args # Undefined /\ Len(args.a) = 3
    /\ PriceValue(args.a[1]) \in {PriceText(0), NoNumberText}
    /\ PriceValue(args.a[2]) = PriceText(900)
    /\ PriceValue(args.a[3]) = PriceText(750)
    /\ result.stats.minPrice = Finite(750)
    /\ result.stats.maxPrice = Finite(900)
    /\ result.stats.avgPrice = Quotient(1650, 2)

\* The watch count of an item is a number or absent.
WatchCountKnown(item) ==
    "watchCount" \notin DOMAIN item \/ item.watchCount.js = "num"

\* The sum of the watch counts of the first n items, an absent one being 0.
RECURSIVE TotalWatch(_, _)
TotalWatch(list, n) ==
    IF n = 0 THEN 0
    ELSE TotalWatch(list, n - 1)
             + (IF "watchCount" \in DOMAIN list[n] THEN list[n].watchCount.n ELSE 0)

\* C19: for a non-empty list whose watch counts are numbers or absent,
\* totalListings is the number of items, totalWatchers the sum of the watch
\* counts with an absent one counted as 0, and avgWatchers that sum
\* divided by the number of all items, in both copies.
C19_WatcherStatsUnfiltered ==
    (/\ result # NotCalled /\ args # Undefined /\ args.a # <<>>
     /\ \A i \in 1..Len(args.a) : WatchCountKnown(args.a[i])) =>
        /\ result.stats.totalListings = Finite(Len(args.a))
        /\ result.stats.totalWatchers = Finite(TotalWatch(args.a, Len(args.a)))
        /\ result.stats.avgWatchers =
               Quotient(TotalWatch(args.a, Len(args.a)), Len(args.a))

\* Three items, none with a price that counts, one without a watch count:
\* 3 listings, 4 watchers, 4 / 3 on average.
C19_Witness ==
    /\ result # NotCalled
    /\ args # Undefined /\ Len(args.a) = 3
    /\ Qualifying(args.a) = {}
    /\ "price" \notin DOMAIN args.a[1]
    /\ "watchCount" \notin DOMAIN args.a[2]
    /\ result.stats.totalListings = Finite(3)
    /\ result.stats.totalWatchers = Finite(4)
    /\ result.stats.avgWatchers = Quotient(4, 3)

(***************************************************************************)
(* Search failures of a run.                                               *)
(***************************************************************************)
\* The errors a search can end with: a failed request, or no items.
SearchErrors == UpstreamErrors \cup {NoItemsError}

\* The request has been answered with the error of a failed search.
SearchFailed ==
    /\ rpc = "done"
    /\ resp.status = 500
    /\ calls.search >= 1
    /\ \E e \in SearchErrors : Len(resp.error) = 2 /\ resp.error[2] = e[1]

\* C20: the step in which the search fails (request failed, or no items)
\* answers the request with 500 and the message of that error, with one
\* search sent, no detail or group lookup, and the cache files untouched;
\* before the search the run writes no file either (get may remove one);
\* the failed run sends nothing afterwards: the next step is a new request
\* or the clock.
C20_SearchFailureEndsRun ==
    /\ [][/\ (rpc' \in {"search_tok", "search"}) =>
                /\ DOMAIN files' = DOMAIN files
                /\ \A path \in DOMAIN files :
                      files'[path] = files[path] \/ ~existsSync(files', path)
          /\ (rpc = "search" /\ rpc' # "enrich") =>
                /\ SearchFailed'
                /\ calls' = [search |-> 1, detail |-> 0, group |-> 0]
                /\ files' = files
          /\ SearchFailed =>
                \/ UNCHANGED <<files, calls, resp, rpc>>
                \/ \E id \in RunIds :
                      RequestNotFound(id) \/ RequestHit(id) \/ RequestMiss(id)]_vars
    /\ [](SearchFailed =>
             /\ calls = [search |-> 1, detail |-> 0, group |-> 0]
             /\ summaries = <<>>
             /\ enriched = <<>>)

\* A search has failed with a network error.
C20_Witness ==
    /\ SearchFailed
    /\ resp.error = <<"Failed to fetch data from eBay: ", "Network Error">>
    /\ calls = [search |-> 1, detail |-> 0, group |-> 0]

(***************************************************************************)
(* Search specification: findItemsByCategory, the copy of the API (Browse  *)
(* API, packages/api/src/api/ebayClient.js:64-111) and the copy of the     *)
(* command line tool (Finding API, src/api/ebayClient.js:26-85), as        *)
(* functions of what axios.get delivers.                                   *)
(***************************************************************************)
RateLimitErrorId == <<"10001">>
OtherErrorId == <<"11002">>

\* axios.get rejects: without a response, or with a response of status 429
\* or 500 whose body may carry an errorId.
Rejected(message, status, errorId) ==
    [settled |-> "rejected", message |-> message, status |-> status, errorId |-> errorId]
RejectedAnswers ==
    { Rejected(<<"Network Error">>, 0, <<>>) } \cup
    { Rejected(<<"Request failed with status code ">> \o code[2], code[1], id) :
        code \in { <<429, <<"429">> >>, <<500, <<"500">> >> },
        id \in { <<>>, RateLimitErrorId, OtherErrorId } }

\* axios.get resolves: response.data with or without the result object, its
\* ack, an errorId and the list of items.
Resolved(ack, errorId, items) ==
    [settled |-> "resolved", ack |-> ack, errorId |-> errorId, items |-> items]

\* What a call of findItemsByCategory ends with.
Returned(items) == [kind |-> "return", success |-> TRUE, items |-> items]
Thrown(message) == [kind |-> "throw", name |-> "Error", message |-> message]

RateLimitError ==
    <<"eBay API rate limit exceeded. Please wait 1 hour and try again.">>
RequestFailedError(errorId) ==
    <<"eBay API request failed: ">> \o (IF errorId = <<>> THEN <<"undefined">> ELSE errorId)

\* findItemsByCategory of the API, lines 75-110.
findItemsByCategory(answer) ==
    IF answer.settled = "rejected" THEN Thrown(FetchError(answer.message))
    ELSE IF ~Truthy(answer.items) \/ Len(answer.items.a) = 0
         THEN Thrown(FetchError(NoItemsError))
         ELSE Returned(answer.items)

\* findItemsByCategory of the command line tool, lines 49-84.
findingItemsByCategory(answer) ==
    IF answer.settled = "rejected"
    THEN IF answer.errorId = RateLimitErrorId
         THEN Thrown(RateLimitError)
         ELSE Thrown(FetchError(answer.message))
    ELSE IF answer.ack # "Success"
         THEN Thrown(FetchError(RequestFailedError(answer.errorId)))
         ELSE Returned(JsOr(answer.items, Arr(<<>>)))

SearchInit ==
    /\ RestIdle
    /\ \/ args \in RejectedAnswers
       \/ \E ack \in {"Success", "Failure", "none"}, id \in {<<>>, RateLimitErrorId} :
             \/ args = Resolved(ack, id, Undefined)
             \/ \E n \in 0..MaxItems : \E l \in [1..n -> 1..2] :
                   args = Resolved(ack, id, Arr([i \in 1..n |-> Summary(l[i])]))
    /\ result = NotCalled

\* ebayClient.findItemsByCategory(id, 20), server.js:94
BrowseSearch ==
    /\ result = NotCalled
    /\ result' = [by |-> "browse", out |-> findItemsByCategory(args)]
    /\ UNCHANGED <<now, cacheVars, keyVars, tokenVars, runVars, args>>

\* this.ebayClient.findItemsByCategory(categoryId, 20), src/index.js:80
FindingSearch ==
    /\ result = NotCalled
    /\ result' = [by |-> "finding", out |-> findingItemsByCategory(args)]
    /\ UNCHANGED <<now, cacheVars, keyVars, tokenVars, runVars, args>>

SearchNext == BrowseSearch \/ FindingSearch

SpecSearch == SearchInit /\ [][SearchNext]_vars

\* The endpoint answered successfully with zero items.
ZeroItems(answer) ==
    /\ answer.settled = "resolved"
    /\ answer.ack = "Success"
    /\ answer.items = Undefined \/ answer.items = Arr(<<>>)

\* What tells one kind of error from another: its class and the text its
\* message starts with.
ErrorKind(out) == [name |-> out.name, text |-> out.message[1]]

\* C21: a successful answer with zero items makes the search fail, with an
\* error of another kind than the error of a rejected request.
C21_NoResultsDistinct ==
    (result # NotCalled /\ ZeroItems(args)) =>
        /\ result.out.kind = "throw"
        /\ \A a \in RejectedAnswers :
              ErrorKind(result.out) #
                  ErrorKind(IF result.by = "browse" THEN findItemsByCategory(a)
                            ELSE findingItemsByCategory(a))

\* C21, the part that holds: the API's copy fails on zero items, and its
\* message differs from the message of every rejected request.
C21_NoResultsMessageDiffers ==
    (result # NotCalled /\ ZeroItems(args) /\ result.by = "browse") =>
        /\ result.out.kind = "throw"
        /\ \A a \in RejectedAnswers : result.out.message # findItemsByCategory(a).message

\* The endpoint answered with the rate-limit error code: status 429, or
\* the Finding API's errorId 10001.
RateLimited(answer) ==
    /\ answer.settled = "rejected"
    /\ answer.status = 429 \/ answer.errorId = RateLimitErrorId

\* C22: an answer with the rate-limit error code makes the search fail
\* with an error of another kind than the error of every other rejected
\* request.
C22_RateLimitDistinct ==
    (result # NotCalled /\ RateLimited(args)) =>
        /\ result.out.kind = "throw"
        /\ \A a \in RejectedAnswers :
              ~RateLimited(a) =>
                  ErrorKind(result.out) #
                      ErrorKind(IF result.by = "browse" THEN findItemsByCategory(a)
                                ELSE findingItemsByCategory(a))

\* C22, the part that holds: the command line tool's copy answers a
\* rejected request whose body carries errorId 10001 with the rate-limit
\* error, whose message names the time to wait and which no other answer
\* produces.
C22_FindingRateLimitDistinct ==
    (result # NotCalled /\ result.by = "finding") =>
        ((args.settled = "rejected" /\ args.errorId = RateLimitErrorId)
            <=> (result.out.kind = "throw" /\ result.out.message = RateLimitError))

(***************************************************************************)
(* Persist specification: the handler after enrichItemsWithDetails has     *)
(* returned (server.js:105-123), with a cache write that succeeds or       *)
(* fails.                                                                  *)
(***************************************************************************)
\* What the callback of the k-th catalogue item can have returned: the
\* summary, the summary merged with its detail, or with its group.
EnrichedChoices(k) ==
    << Summary(k),
       EnrichedItem(Summary(k), Detail(k, FALSE)),
       EnrichedItem(Summary(k), AggregateGroup(GroupItems(k))) >>

PersistInit ==
    /\ now \in { h * HourMs : h \in 0..MaxTicks }
    /\ files = [p \in CachePaths |-> NoFile]
    /\ wr = [p \in Procs |-> Idle]
    /\ lastGet = NoGet
    /\ looked = {}
    /\ TokenIdle
    /\ rpc = "enrich"
    /\ reqId = <<"1">>
    /\ \E n \in 1..MaxItems :
          /\ summaries = [i \in 1..n |-> Summary(n + 1 - i)]
          /\ ipc = [i \in 1..n |-> "done"]
          /\ itemDetails = [i \in 1..n |-> Null]
          /\ \E c \in [1..n -> 1..3] :
                enriched = [i \in 1..n |-> EnrichedChoices(n + 1 - i)[c[i]]]
    /\ resp = NoResponse
    /\ calls = [search |-> 1, detail |-> Len(summaries), group |-> 0]
    /\ FnIdle

\* cache.set(cacheKey, result); res.json(...)
Persist ==
    /\ rpc = "enrich"
    /\ \E set \in CacheSetOutcomes(files, cacheKey(reqId), Result(enriched), now) :
          /\ HandlerTail(enriched, set)
          /\ result' = Bool(set.ret)
    /\ UNCHANGED <<now, wr, lastGet, keyVars, tokenVars, args,
                   reqId, summaries, ipc, itemDetails, enriched, calls>>

PersistNext == Persist

SpecPersist == PersistInit /\ [][PersistNext]_vars

\* C23: when cache.set reports a failed write, the request is answered
\* 200 with the metrics of every enriched item, marked as fresh.
C23_WriteFailureNotPropagated ==
    (rpc = "done" /\ result = Bool(FALSE)) =>
        /\ resp.status = 200
        /\ ~resp.cached
        /\ Len(resp.items) = Len(summaries)
        /\ \A i \in 1..Len(summaries) :
              /\ resp.items[i] = extractMetrics(enriched[i])
              /\ resp.items[i].itemId = summaries[i].itemId

\* The write of a result of three items failed after the file had been
\* truncated, and the request was answered with the three items.
C23_Witness ==
    /\ rpc = "done"
    /\ result = Bool(FALSE)
    /\ files[getCacheFilePath(cacheKey(reqId))] = Partial
    /\ resp.status = 200
    /\ Len(resp.items) = 3

(***************************************************************************)
(* Claims about two requests for the same category.                        *)
(***************************************************************************)
\* The stored entry of category id is the one the run that has just been
\* answered wrote from its enriched items.
WrittenByRun(id) ==
    LET content == files[getCacheFilePath(cacheKey(id))]
    IN /\ content.kind = "text"
       /\ content = JsonStringify(CacheRecord(cacheKey(id), Result(enriched),
                                              content.val.timestamp.n))

\* C24: a request for the category of the fresh run answered before it,
\* received while the entry that run wrote is within its time to live, is
\* answered with the same items and the same stats; only the cached flag
\* differs.
C24_RepeatedCallSamePayload ==
    [][( /\ rpc = "done" /\ resp.status = 200 /\ ~resp.cached
         /\ Received(reqId)
         /\ WrittenByRun(reqId)
         /\ ValidEntry(files, reqId, now) ) =>
            /\ rpc' = "done"
            /\ resp' = [resp EXCEPT !.cached = TRUE]
            /\ resp'.items = resp.items
            /\ resp'.stats = resp.stats]_vars

\* C24 witness: an entry of two or more items, one of them enriched, has
\* been served an hour or more after it was written, with the statistics
\* of its items.
C24_Witness ==
    /\ rpc = "done"
    /\ resp.status = 200
    /\ resp.cached
    /\ ValidEntry(files, reqId, now)
    /\ now > files[getCacheFilePath(cacheKey(reqId))].val.timestamp.n
    /\ Len(resp.items) >= 2
    /\ resp.items = EntryItems(files, reqId)
    /\ resp.stats = calculateCategoryStats(
                        files[getCacheFilePath(cacheKey(reqId))].val.data.items)
    /\ resp.stats.totalWatchers # Finite(0)
    /\ resp.stats.minPrice # resp.stats.maxPrice

(***************************************************************************)
(* Claims about the order of enrichment, statistics and the cache write.   *)
(***************************************************************************)
\* A run has been received and not yet answered.
InProgress == rpc \in {"search_tok", "search", "enrich"}

\* Every callback of enrichItemsWithDetails has returned in the state
\* after the step.
AllLookupsOver ==
    /\ Len(ipc') = Len(summaries)
    /\ Len(enriched') = Len(summaries)
    /\ \A i \in 1..Len(ipc') : ipc'[i] = "done" /\ enriched'[i] # Pending

\* C25: a run in progress writes its entry and computes its statistics
\* only in the step in which the last lookup of its items completes or
\* fails, the entry holding all enriched items; in every other step of a
\* run in progress, the step that fails it included, the files are left
\* as they are, so a run that stops before does not touch the cache.
C25_WriteAfterEnrichment ==
    [][InProgress =>
          /\ (files' # files \/ resp'.status = 200) =>
                 /\ rpc = "enrich" /\ rpc' = "done"
                 /\ AllLookupsOver
                 /\ files' = CacheSet(files, cacheKey(reqId), Result(enriched'), now)
                 /\ resp' = Response(enriched', FALSE)
          /\ resp' # resp => rpc' = "done"
          /\ resp'.status = 500 => files' = files]_vars

\* C25 witness: a run of three items, whose lookups ended differently, has
\* been answered and its entry holds the three enriched items.
C25_Witness ==
    /\ rpc = "done" /\ resp.status = 200 /\ ~resp.cached
    /\ Len(enriched) = 3
    /\ WrittenByRun(reqId)
    /\ \E i, j \in 1..3 : enriched[i] = summaries[i] /\ enriched[j].title = Str("variation")

(***************************************************************************)
(* Waiting specification: the run specification with the time that passes  *)
(* while a run waits for an upstream answer.  No call of axios is given a  *)
(* timeout (ebayClient.js:33-42, 76-82, 122-127, 154-160) and the handler  *)
(* arms no timer, so the passing of time is the only step that is sure to  *)
(* happen while a call is unanswered.                                      *)
(***************************************************************************)
\* Time passes while the run waits.
WaitTick ==
    /\ InProgress
    /\ now < MaxTicks * HourMs
    /\ now' = now + HourMs
    /\ UNCHANGED <<cacheVars, keyVars, fnVars, tokenVars, runVars>>

WaitNext == Next \/ WaitTick

SpecWait == Init /\ [][WaitNext]_vars /\ WF_vars(WaitTick) /\ WF_vars(RunTick)

\* C26: every run that has been received is answered in the end, whether
\* or not the upstream answers.
C26_EveryRunEnds == InProgress ~> (rpc = "done")

(***************************************************************************)
(* Overlap specification: two requests handled by one server process at   *)
(* the same time (server.js:63-131).  Each handler runs until its next     *)
(* await; cache.get and cache.set are synchronous (cache.js:28-76), so     *)
(* each of them is one step, and the two handlers interleave only while    *)
(* they wait for the upstream.                                             *)
(***************************************************************************)
Runs == {"r1", "r2"}

Waiting == [at |-> "waiting"]
Fetching(id) == [at |-> "fetching", id |-> id]
Answered(id, stored) == [at |-> "answered", id |-> id, stored |-> stored]

\* args holds the position of each handler, result the text the latest
\* call of set has written for each path.
OverlapInit ==
    /\ now = 0
    /\ files \in [CachePaths -> {NoFile, Garbage}]
    /\ wr = [p \in Procs |-> Idle]
    /\ lastGet = NoGet
    /\ looked = {}
    /\ TokenIdle
    /\ RunIdle
    /\ args = [r \in Runs |-> Waiting]
    /\ result = [p \in CachePaths |-> NoFile]

\* server.js:74-91: the handler of run r looks the category up in the
\* cache; on a hit it answers, on a miss it starts to fetch.
OverlapReceive(r, id) ==
    /\ args[r] = Waiting
    /\ LET got == CacheGet(files, cacheKey(id), now)
       IN /\ files' = got.fs
          /\ args' = [args EXCEPT ![r] = IF Truthy(got.ret) THEN Answered(id, Null)
                                         ELSE Fetching(id)]
    /\ UNCHANGED <<now, wr, lastGet, keyVars, tokenVars, runVars, result>>

\* server.js:101-123: enrichItemsWithDetails has returned items to the
\* handler of run r, which stores the result and answers.
OverlapStore(r, items) ==
    /\ args[r].at = "fetching"
    /\ LET key == cacheKey(args[r].id)
           text == JsonStringify(CacheRecord(key, Result(items), now))
       IN /\ files' = CacheSet(files, key, Result(items), now)
          /\ result' = [result EXCEPT ![getCacheFilePath(key)] = text]
          /\ args' = [args EXCEPT ![r] = Answered(args[r].id, text)]
    /\ UNCHANGED <<now, wr, lastGet, keyVars, tokenVars, runVars>>

\* server.js:94, 124-130: the search failed, the handler answers 500.
OverlapFail(r) ==
    /\ args[r].at = "fetching"
    /\ args' = [args EXCEPT ![r] = Answered(args[r].id, Null)]
    /\ UNCHANGED <<now, cacheVars, keyVars, tokenVars, runVars, result>>

OverlapTick ==
    /\ now < MaxTicks * HourMs
    /\ now' = now + HourMs
    /\ UNCHANGED <<cacheVars, keyVars, fnVars, tokenVars, runVars>>

OverlapNext ==
    \/ \E r \in Runs, id \in CacheIds : OverlapReceive(r, id)
    \/ \E r \in Runs, items \in SearchResults : OverlapStore(r, items)
    \/ \E r \in Runs : OverlapFail(r)
    \/ OverlapTick

SpecOverlap == OverlapInit /\ [][OverlapNext]_vars

\* Both runs were for category id, both missed the cache and stored a
\* result.
BothStored(id) ==
    \A r \in Runs :
        args[r].at = "answered" /\ args[r].id = id /\ args[r].stored # Null

RecordWithout(missing, data, t) ==
    LET rec == CacheRecord(cacheKey(<<"1">>), data, t)
    IN JsonStringify([f \in DOMAIN rec |-> IF f \in missing THEN Undefined ELSE rec[f]])

\* Contents of the file at time t: no file, text that is no JSON, entries
\* written by set up to t, and JSON records that lack the timestamp, the
\* data, or the items of the data, or whose items are no list.
StoredEntries(t) ==
    {NoFile, Garbage}
    \cup { RecordWithout({}, Result(items), h * HourMs) :
              items \in SearchResults, h \in 0..(t \div HourMs) }
    \cup { RecordWithout({"timestamp"}, Result(items), 0) : items \in SearchResults }
    \cup { RecordWithout({"data"}, Undefined, h * HourMs) : h \in 0..(t \div HourMs) }
    \cup { RecordWithout({}, [success |-> Bool(TRUE)], h * HourMs) : h \in 0..(t \div HourMs) }
    \cup { RecordWithout({}, [success |-> Bool(TRUE), items |-> Str("none")], t) }

EntryInit ==
    /\ now \in { h * HourMs : h \in 0..MaxTicks }
    /\ \E c \in StoredEntries(now) :
          files = [p \in CachePaths |->
                      IF p = getCacheFilePath(cacheKey(<<"1">>)) THEN c ELSE NoFile]
    /\ wr = [p \in Procs |-> Idle]
    /\ lastGet = NoGet
    /\ looked = {}
    /\ TokenIdle
    /\ RunIdle
    /\ FnIdle

EntryNext ==
    \/ \E id \in RunIds : RequestNotFound(id)
    \/ \E id \in RunIds : RequestHit(id)
    \/ \E id \in RunIds : RequestMiss(id)

SpecEntry == EntryInit /\ [][EntryNext]_vars

\* The file holds something, and it cannot be used as an enriched result:
\* it is no JSON, or it lacks the timestamp, the data or the items list.
Unusable(content) ==
    /\ content # NoFile
    /\ \/ content.kind # "text"
       \/ Prop(content.val, "timestamp").js # "num"
       \/ ~Truthy(Prop(content.val, "data"))
       \/ ~IsArray(Prop(Prop(content.val, "data"), "items"))

\* The request received in this step is handled as a cache miss: the
\* search, or the token exchange before it, has been sent.
HandledAsMiss == rpc' \in {"search", "search_tok"} /\ resp' = NoResponse

\* C28: a request that finds an entry that cannot be used is not answered
\* with an error; the entry is removed and the run goes on as a miss.
C28_UnusableEntryIsMiss ==
    [][\A id \in RunIds :
          (Received(id) /\ Unusable(files[getCacheFilePath(cacheKey(id))])) =>
              /\ resp'.status # 500
              /\ files'[getCacheFilePath(cacheKey(id))] = NoFile
              /\ HandledAsMiss]_vars

\* C28, the part that holds: text that is no JSON is removed and the run
\* goes on as a miss; a record without data is a miss as well.
C28_UnparseableIsMiss ==
    [][\A id \in RunIds :
          LET content == files[getCacheFilePath(cacheKey(id))]
          IN (Received(id) /\ content # NoFile) =>
                /\ content.kind # "text" =>
                       /\ files'[getCacheFilePath(cacheKey(id))] = NoFile
                       /\ HandledAsMiss
                /\ (content.kind = "text" /\ ~Truthy(Prop(content.val, "data"))) =>
                       HandledAsMiss]_vars

(***************************************************************************)
(* Claims about the number of upstream calls of a run.                     *)
(***************************************************************************)
\* Calls the run has sent to the Browse API (token exchanges, which go to
\* the OAuth endpoint, are not counted).
BrowseCalls == calls.search + calls.detail + calls.group

\* C29: a fresh run whose search returned N items sends at most N + 1
\* upstream calls: one search and N item-detail lookups (21 for the 20
\* items the handler asks for).
C29_CallsBounded ==
    (rpc \in {"enrich", "done"} /\ calls.search = 1) =>
        /\ calls.detail <= Len(summaries)
        /\ BrowseCalls <= Len(summaries) + 1

\* C29, the part that holds: one search, at most one detail lookup and at
\* most one group lookup for each item.
C29_OneLookupOfEachKind ==
    (rpc \in {"enrich", "done"} /\ calls.search = 1) =>
        /\ calls.detail <= Len(summaries)
        /\ calls.group <= calls.detail
        /\ BrowseCalls <= 2 * Len(summaries) + 1

(***************************************************************************)
(* Age specification: the cache hit of the handlers reads the entry twice, *)
(* cache.get for the payload and cache.getCacheAge for the age              *)
(* (server.js:77-79, src/index.js:70-72), while another process that       *)
(* shares the cache directory sets, deletes or expires entries.            *)
(***************************************************************************)
\* CacheManager.getCacheAge(key) at time t, cache.js:122-137: the age in
\* hours of the entry the file holds, null without a file or when the
\* text cannot be parsed.
getCacheAge(fs, key, t) ==
    LET path == getCacheFilePath(key)
        content == fs[path]
    IN  IF ~existsSync(fs, path) THEN Null
        ELSE IF JsonParseThrows(content) THEN Null
        ELSE LET ts == Prop(JsonParse(content), "timestamp")
             IN IF ts.js = "num" THEN Quotient(t - ts.n, HourMs) ELSE NotANumber

\* The hit of process p between its two reads: the content get served.
Serving(key, content) == [st |-> "hit", key |-> key, served |-> content]

\* What a hit reported: the content whose payload was served, the content
\* getCacheAge read, the age it returned and the time of that call.
HitObservation(served, fs, key, t) ==
    [done |-> TRUE, served |-> served, read |-> fs[getCacheFilePath(key)],
     age |-> getCacheAge(fs, key, t), at |-> t]

\* const cached = cache.get(cacheKey); if (cached) ...
HitGet(p, id) ==
    /\ wr[p] = Idle
    /\ LET r == CacheGet(files, cacheKey(id), now)
           w == Detach(wr, files, r.fs)
       IN /\ files' = r.fs
          /\ wr' = IF Truthy(r.ret)
                   THEN [w EXCEPT ![p] = Serving(cacheKey(id),
                                                 files[getCacheFilePath(cacheKey(id))])]
                   ELSE w
    /\ UNCHANGED <<now, lastGet, keyVars, fnVars, tokenVars, runVars>>

\* const age = cache.getCacheAge(cacheKey)
HitAge(p) ==
    /\ wr[p].st = "hit"
    /\ lastGet' = HitObservation(wr[p].served, files, wr[p].key, now)
    /\ wr' = [wr EXCEPT ![p] = Idle]
    /\ UNCHANGED <<now, files, keyVars, fnVars, tokenVars, runVars>>

\* The handler's process and the process that writes and deletes.
Handler == "p1"
Other == "p2"

AgeNext ==
    \/ \E id \in CacheIds : HitGet(Handler, id)
    \/ HitAge(Handler)
    \/ \E id \in CacheIds : CSetOpen(Other, id)
    \/ CSetWrite(Other)
    \/ \E id \in CacheIds : CDelete(Other, id)
    \/ Tick

SpecAge == CacheInit /\ [][AgeNext]_vars

\* C30: the age reported with a hit is a number, and it is the age of the
\* entry whose payload was served.
C30_AgeOfServedEntry ==
    lastGet.done =>
        /\ lastGet.age # Null
        /\ lastGet.read = lastGet.served
        /\ lastGet.age = Quotient(lastGet.at - lastGet.served.val.timestamp.n, HourMs)

\* C30, the part that holds: when the file still holds the served entry at
\* the second read, the age is the time since that entry was written, in
\* hours, whatever time has passed between the two reads.
C30_AgeOfUnchangedEntry ==
    (lastGet.done /\ lastGet.read = lastGet.served) =>
        lastGet.age = Quotient(lastGet.at - lastGet.served.val.timestamp.n, HourMs)

(***************************************************************************)
(* Claims about concurrent token exchanges.                                *)
(***************************************************************************)
\* C31: whatever the order in which the answers to concurrent exchanges
\* arrive, the client stores either nothing or one token together with
\* the expiry computed from the same answer: the answer's lifetime and the
\* time it was handled.
C31_PairFromOneResponse ==
    /\ accessToken = Null <=> tokenExpiry = Null
    /\ accessToken # Null =>
          /\ TruthyToken(accessToken)
          /\ tokenExpiry = StoredExpiry(accessToken.life, accessToken.iat)

\* C31 witness: two exchanges were sent; the answer to one has just been
\* stored, with a lifetime other than the shortest one, while the other
\* caller is still waiting for its answer.
C31_Witness ==
    /\ exchanges = 2
    /\ \E c \in Callers : tcall[c] = "wait"
    /\ \E c \in Callers : tcall[c] = "idle"
    /\ lastRet.done /\ lastRet.ok /\ lastRet.fresh /\ lastRet.at = now
    /\ accessToken = lastRet.token
    /\ TokenValid(accessToken, tokenExpiry, now)

(***************************************************************************)
(* Snapshot specification: one cache directory, written and read by a      *)
(* server process that may be restarted with another CACHE_DURATION        *)
(* (cache.js:15-17).  set reads the clock twice, for timestamp and for     *)
(* expiresAt (cache.js:64, 66), and the millisecond clock may advance      *)
(* between the two reads.                                                  *)
(***************************************************************************)
\* new Date(ms).toISOString(): the text of the instant ms.
IsoString(ms) == [js |-> "str", iso |-> ms]

\* CACHE_DURATION, in hours: 1, or unset (the default).
DurationHours == {1, CacheDurationHours}

\* The object set serializes when its first Date.now() returns t1, its
\* second one t2, in a process whose cacheDuration is duration.
Snapshot(key, data, t1, t2, duration) ==
    [key |-> Str(key), timestamp |-> Num(t1), data |-> data,
     expiresAt |-> IsoString(t2 + duration)]

\* Milliseconds the clock advances beyond a full hour.
MaxLate == 2

SnapKey == cacheKey(<<"1">>)
SnapPath == getCacheFilePath(SnapKey)

\* args is the cacheDuration of the running process.
SnapInit ==
    /\ now = 0
    /\ files = [p \in CachePaths |-> NoFile]
    /\ wr = [p \in Procs |-> Idle]
    /\ lastGet = NoGet
    /\ looked = {}
    /\ TokenIdle
    /\ RunIdle
    /\ args = cacheDuration
    /\ result = NotCalled

\* set(key, data), the clock advancing by late ms between its two reads.
SnapSet(items, late) ==
    /\ late = 1 => now % HourMs < MaxLate
    /\ files' = WriteFinish(WriteOpen(files, SnapPath), SnapPath,
                            JsonStringify(Snapshot(SnapKey, Result(items),
                                                   now, now + late, args)))
    /\ now' = now + late
    /\ result' = Bool(TRUE)
    /\ UNCHANGED <<wr, lastGet, keyVars, tokenVars, runVars, args>>

\* get(key): what it saw and returned, the time, and the cacheDuration of
\* the process.
SnapGet ==
    /\ LET r == CacheGetWithin(files, SnapKey, now, args)
       IN /\ files' = r.fs
          /\ lastGet' = [done |-> TRUE, seen |-> files[SnapPath], ret |-> r.ret,
                         at |-> now, ttl |-> args]
    /\ UNCHANGED <<now, wr, keyVars, tokenVars, runVars, fnVars>>

\* The process is restarted with CACHE_DURATION = h.
SnapRestart(h) ==
    /\ args' = h * HourMs
    /\ args' # args
    /\ UNCHANGED <<now, cacheVars, keyVars, tokenVars, runVars, result>>

\* An hour passes, or a millisecond (at most MaxLate after the hour).
SnapTick(ms) ==
    /\ IF ms = 1 THEN now % HourMs < MaxLate ELSE now < MaxTicks * HourMs
    /\ now' = now + ms
    /\ UNCHANGED <<cacheVars, keyVars, fnVars, tokenVars, runVars>>

SnapNext ==
    \/ \E items \in {l \in SearchResults : Len(l) = 1}, late \in {0, 1} :
          SnapSet(items, late)
    \/ SnapGet
    \/ \E h \in DurationHours : SnapRestart(h)
    \/ \E ms \in {1, HourMs} : SnapTick(ms)

SpecSnapshot == SnapInit /\ [][SnapNext]_vars

\* The expiry a snapshot records, in ms.
RecordedExpiry(content) == content.val.expiresAt.iso

\* C32: the expiry a snapshot records is its recorded creation time plus
\* a configured cache duration, and get serves an entry exactly while the
\* time is not past that recorded expiry.
C32_ServedUntilRecordedExpiry ==
    /\ files[SnapPath] # NoFile =>
          \E h \in DurationHours :
              RecordedExpiry(files[SnapPath]) =
                  files[SnapPath].val.timestamp.n + h * HourMs
    /\ (lastGet.done /\ lastGet.seen # NoFile) =>
          (lastGet.ret # Null <=> lastGet.at <= RecordedExpiry(lastGet.seen))

\* C32, the part that holds: an entry whose recorded expiry is its
\* creation time plus the cacheDuration of the process that reads it is
\* served exactly while the time is not past the recorded expiry.
C32_ServedUntilOwnExpiry ==
    (/\ lastGet.done /\ lastGet.seen # NoFile
     /\ RecordedExpiry(lastGet.seen) = lastGet.seen.val.timestamp.n + lastGet.ttl) =>
        (lastGet.ret # Null <=> lastGet.at <= RecordedExpiry(lastGet.seen))

(***************************************************************************)
(* Round-trip specification: set(key, d) and, some time later, get(key)    *)
(* on a key nothing else touches (cache.js:28-76).                         *)
(***************************************************************************)
\* Values JSON can represent: no undefined and no NaN at any depth.
RECURSIVE JsonRepresentable(_)
JsonRepresentable(v) ==
    IF IsArray(v) THEN \A i \in 1..Len(v.a) : JsonRepresentable(v.a[i])
    ELSE IF "js" \in DOMAIN v THEN v.js \in {"null", "bool", "num", "str"}
    ELSE \A f \in DOMAIN v : JsonRepresentable(v[f])

\* Payloads handed to set: results of runs, other values JSON can
\* represent, and values it cannot.
RoundTripInputs ==
    { Result(items) : items \in SearchResults }
    \cup { Null, Bool(FALSE), Num(0), Str("text"), Arr(<<>>), Arr(<<Num(1), Null>>),
           [note |-> Null, list |-> Arr(<<[deep |-> Str("x")]>>)] }
    \cup { NaN, Arr(<<Undefined>>), [note |-> Undefined, n |-> Num(1)],
           [list |-> Arr(<<[deep |-> NaN]>>)],
           Result(<<EnrichedItem(Summary(1), AggregateGroup(GroupItems(1)))>>) }

\* args is the payload d; result records what set returned, when it was
\* called, and what get returned.
RoundTripInit ==
    /\ now = 0
    /\ files \in [CachePaths -> {NoFile, Garbage}]
    /\ wr = [p \in Procs |-> Idle]
    /\ lastGet = NoGet
    /\ looked = {}
    /\ TokenIdle
    /\ RunIdle
    /\ args \in RoundTripInputs
    /\ result = NotCalled

\* cache.set(key, d)
RoundTripSet ==
    /\ result = NotCalled
    /\ \E set \in CacheSetOutcomes(files, SnapKey, args, now) :
          /\ files' = set.fs
          /\ result' = [js |-> "set", ret |-> set.ret, at |-> now]
    /\ UNCHANGED <<now, wr, lastGet, keyVars, tokenVars, runVars, args>>

\* cache.get(key) after the set
RoundTripGet ==
    /\ result # NotCalled /\ result.js = "set"
    /\ LET r == CacheGet(files, SnapKey, now)
       IN /\ files' = r.fs
          /\ result' = [js |-> "got", ret |-> result.ret, at |-> result.at,
                        got |-> r.ret, age |-> now - result.at]
    /\ UNCHANGED <<now, wr, lastGet, keyVars, tokenVars, runVars, args>>

RoundTripNext == RoundTripSet \/ RoundTripGet \/ Tick

SpecRoundTrip == RoundTripInit /\ [][RoundTripNext]_vars

\* get has been called within the time to live of the set before it.
GotWithinTtl == result # NotCalled /\ result.js = "got" /\ result.age <= cacheDuration

\* C33 as stated: for every payload d that JSON can represent, set
\* returned true and a get within the time to live returns a payload
\* equal to d.
C33_RoundTrip ==
    /\ (result # NotCalled /\ JsonRepresentable(args)) => result.ret
    /\ (GotWithinTtl /\ JsonRepresentable(args)) => result.got = args

\* C33, with the condition that the write succeeded (set returned true):
\* a get within the time to live returns a payload equal to d.
C33_RoundTripOfWritten ==
    (GotWithinTtl /\ JsonRepresentable(args) /\ result.ret) => result.got = args

\* C33 witness: a result of two items, and a record with a null property
\* and a nested list, have been stored and read back, equal, an hour or
\* more later.
C33_Witness ==
    /\ GotWithinTtl /\ result.ret
    /\ result.age > 0
    /\ \/ IsArray(Prop(args, "items")) /\ Len(args.items.a) = 2
       \/ Prop(args, "note") = Null
    /\ result.got = args

(***************************************************************************)
(* Has specification: has(key) on a file that holds an entry of any shape  *)
(* (cache.js:139-144).                                                     *)
(***************************************************************************)
\* CacheManager.has(key): the value returned and the files afterwards.
has(fs, key, t) ==
    LET r == CacheGet(fs, key, t)
    IN [ret |-> r.ret # Null, fs |-> r.fs]

HasInit ==
    /\ now \in { h * HourMs : h \in 0..MaxTicks }
    /\ \E c \in StoredEntries(now) \cup { RecordWithout({}, Null, now) } :
          files = [p \in CachePaths |-> IF p = SnapPath THEN c ELSE NoFile]
    /\ wr = [p \in Procs |-> Idle]
    /\ lastGet = NoGet
    /\ looked = {}
    /\ TokenIdle
    /\ RunIdle
    /\ FnIdle

\* cache.has(key); result records the value returned, the content of the
\* file the call found, and the time of the call.
HasCall ==
    /\ LET r == has(files, SnapKey, now)
       IN /\ files' = r.fs
          /\ result' = [js |-> "has", ret |-> r.ret, seen |-> files[SnapPath], at |-> now]
    /\ UNCHANGED <<now, wr, lastGet, keyVars, tokenVars, runVars, args>>

HasNext == HasCall \/ Tick

SpecHas == HasInit /\ [][HasNext]_vars

\* The entry is parseable, not older than the time to live, and carries a
\* data payload.
HoldsValidEntry(content, t) ==
    /\ content.kind = "text"
    /\ ~(Prop(content.val, "timestamp").js = "num"
           /\ t - content.val.timestamp.n > cacheDuration)
    /\ Prop(content.val, "data") \notin {Undefined, Null}

HasReturned == result # NotCalled /\ result.js = "has"

\* C34: has(key) returns true exactly when the cache holds a valid entry
\* for the key, one with a data payload; it returns false for an entry
\* that is absent, expired, unparseable, or parseable without data.
C34_HasIffValidEntry ==
    HasReturned => (result.ret <=> HoldsValidEntry(result.seen, result.at))

\* C34, the part that holds: has returns true for a valid entry with a
\* payload, and false for an absent, unparseable or expired entry and for
\* one whose data is null.
C34_HasOfStoredEntry ==
    HasReturned =>
        LET c == result.seen
            expired == /\ c.kind = "text"
                       /\ Prop(c.val, "timestamp").js = "num"
                       /\ result.at - c.val.timestamp.n > cacheDuration
        IN /\ HoldsValidEntry(c, result.at) => result.ret
           /\ (c.kind # "text" \/ expired
                 \/ (c.kind = "text" /\ Prop(c.val, "data") = Null)) => ~result.ret

(***************************************************************************)
(* Finiteness of the statistics (SpecStats).                               *)
(***************************************************************************)
\* Number.isFinite(x)
IsFiniteNumber(x) == x.k \in {"num", "quot"}

StatFields ==
    {"avgPrice", "minPrice", "maxPrice", "totalListings", "totalWatchers", "avgWatchers"}

\* C35: for every non-empty list, also one in which no price qualifies,
\* all six fields are finite numbers, and avgPrice, minPrice and maxPrice
\* are 0 when no price qualifies.
C35_StatsFinite ==
    (result # NotCalled /\ args # Undefined /\ args.a # <<>>) =>
        /\ \A f \in StatFields : IsFiniteNumber(result.stats[f])
        /\ Qualifying(args.a) = {} =>
               \A f \in {"avgPrice", "minPrice", "maxPrice"} : result.stats[f] = Finite(0)

\* C35, the part that holds: the API's copy returns finite price fields,
\* 0 when no price qualifies, and finite watcher fields when every watch
\* count is a number or absent.
C35_ApiStatsFinite ==
    (result # NotCalled /\ args # Undefined /\ args.a # <<>>
       /\ result.by = "ebayClient") =>
        /\ \A f \in {"avgPrice", "minPrice", "maxPrice", "totalListings"} :
               IsFiniteNumber(result.stats[f])
        /\ Qualifying(args.a) = {} =>
               \A f \in {"avgPrice", "minPrice", "maxPrice"} : result.stats[f] = Finite(0)
        /\ (\A i \in 1..Len(args.a) : WatchCountKnown(args.a[i])) =>
               \A f \in StatFields : IsFiniteNumber(result.stats[f])

(***************************************************************************)
(* First-run specification: the first request the server receives after    *)
(* its start, when no token is stored, with time passing while the run     *)
(* waits for its answers (ebayClient.js:25-55, 64-67, 117-153).            *)
(***************************************************************************)
\* The search of the first run returns up to this many items.
FirstRunItems == 2

\* The first request misses the cache; findItemsByCategory asks for the
\* token and starts the exchange.
FirstRequest(id) ==
    /\ rpc = "idle"
    /\ RequestMiss(id)

FirstRunNext ==
    \/ \E id \in RunIds : FirstRequest(id)
    \/ \E life \in RunLifetimes : SearchTokOk(life)
    \/ SearchTokFail
    \/ \E list \in { l \in SearchResults : Len(l) <= FirstRunItems } : SearchOk(list)
    \/ \E error \in UpstreamErrors : SearchFail(error)
    \/ SearchEmpty
    \/ \E i \in Slots, life \in RunLifetimes : ItemTokOk(i, life)
    \/ \E i \in Slots : ItemTokFail(i)
    \/ \E i \in Slots, grouped \in BOOLEAN : DetailOk(i, grouped)
    \/ \E i \in Slots : DetailFail(i)
    \/ \E i \in Slots, life \in RunLifetimes : GroupTokOk(i, life)
    \/ \E i \in Slots : GroupTokFail(i)
    \/ \E i \in Slots, empty \in BOOLEAN : GroupOk(i, empty)
    \/ \E i \in Slots : GroupFail(i)
    \/ WaitTick

SpecFirstRun == Init /\ [][FirstRunNext]_vars

\* The run has stored a token whose lifetime is longer than the safety
\* margin.
HoldsLongToken ==
    /\ InProgress
    /\ TruthyToken(accessToken)
    /\ accessToken.life > SafetyMarginSec

ExchangeFails(c) ==
    /\ tcall[c] = "wait"
    /\ tcall'[c] = "idle"
    /\ lastRet'.done /\ ~lastRet'.ok

\* C37: when a token exchange fails, the stored accessToken and
\* tokenExpiry are left exactly as they were.
C37_FailedExchangeKeepsToken ==
    [][\A c \in Callers :
          ExchangeFails(c) => (accessToken' = accessToken /\ tokenExpiry' = tokenExpiry)]_vars

\* C37 witness: an exchange has failed while a token obtained by an
\* earlier exchange, expired by now, is stored.
C37_Witness ==
    /\ lastRet.done /\ ~lastRet.ok /\ lastRet.at = now
    /\ TruthyToken(accessToken)
    /\ ~TokenValid(accessToken, tokenExpiry, now)
    /\ tokenExpiry = StoredExpiry(accessToken.life, accessToken.iat)
    /\ accessToken.iat < now
    /\ exchanges >= 2

(***************************************************************************)
(* Frame specification: set, get and delete on keys of which two are       *)
(* written to the same file (cache.js:28-95, 149-152).                     *)
(***************************************************************************)
FrameKeys == { cacheKey(<<"1">>), cacheKey(<<"1", ".", "5">>), cacheKey(<<"1", "_", "5">>) }
FramePaths == { getCacheFilePath(k) : k \in FrameKeys }

\* CacheManager.delete(key), lines 81-95: the file is removed and true
\* returned, or unlinkSync throws and false is returned, or there is no
\* file and false is returned.
CacheDeleteOutcomes(fs, key) ==
    { [ret |-> CacheDeleteRet(fs, key), fs |-> CacheDeleteFiles(fs, key)] }
    \cup (IF existsSync(fs, getCacheFilePath(key)) THEN { [ret |-> FALSE, fs |-> fs] } ELSE {})

FrameInit ==
    /\ now = 0
    /\ files \in [FramePaths -> {NoFile, Garbage}]
    /\ wr = [p \in Procs |-> Idle]
    /\ lastGet = NoGet
    /\ looked = {}
    /\ TokenIdle
    /\ RunIdle
    /\ FnIdle

\* result names the last operation, its key and what it returned.
Operation(op, key, ret) == [js |-> "op", op |-> op, key |-> key, ret |-> ret]

FrameSet(key, items) ==
    /\ \E set \in CacheSetOutcomes(files, key, Result(items), now) :
          /\ files' = set.fs
          /\ result' = Operation("set", key, set.ret)
    /\ UNCHANGED <<now, wr, lastGet, keyVars, tokenVars, runVars, args>>

FrameGet(key) ==
    /\ LET r == CacheGet(files, key, now)
       IN /\ files' = r.fs
          /\ result' = Operation("get", key, r.ret)
    /\ UNCHANGED <<now, wr, lastGet, keyVars, tokenVars, runVars, args>>

FrameDelete(key) ==
    /\ \E del \in CacheDeleteOutcomes(files, key) :
          /\ files' = del.fs
          /\ result' = Operation("delete", key, del.ret)
    /\ UNCHANGED <<now, wr, lastGet, keyVars, tokenVars, runVars, args>>

FrameNext ==
    \/ \E key \in FrameKeys, items \in { l \in SearchResults : Len(l) = 1 } :
          FrameSet(key, items)
    \/ \E key \in FrameKeys : FrameGet(key)
    \/ \E key \in FrameKeys : FrameDelete(key)
    \/ Tick

SpecFrame == FrameInit /\ [][FrameNext]_vars

\* The step is an operation of the cache (the clock stands still).
OperationStep == now' = now /\ result' # NotCalled

\* C38 as stated: an operation leaves the entry of every other key
\* unchanged; delete returns true exactly when an entry for the key
\* existed, and get(key) afterwards returns not-found.
C38_OnlyThatKey ==
    [][OperationStep =>
         LET key == result'.key
             path == getCacheFilePath(key)
         IN /\ \A k \in FrameKeys \ {key} :
                  files'[getCacheFilePath(k)] = files[getCacheFilePath(k)]
            /\ result'.op = "delete" =>
                  /\ result'.ret <=> existsSync(files, path)
                  /\ CacheGet(files', key, now).ret = Null]_vars

\* C38, for keys written to different files and for a delete whose
\* unlink does not fail: an operation changes no file but the key's;
\* delete returns true exactly when the file existed and has been
\* removed, it returns false and changes nothing otherwise, and after a
\* delete that returned true or found no file get(key) returns not-found.
C38_OnlyThatFile ==
    [][OperationStep =>
         LET key == result'.key
             path == getCacheFilePath(key)
         IN /\ \A q \in FramePaths \ {path} : files'[q] = files[q]
            /\ result'.op = "delete" =>
                  /\ result'.ret <=> (existsSync(files, path) /\ ~existsSync(files', path))
                  /\ ~result'.ret => files' = files
                  /\ (result'.ret \/ ~existsSync(files, path)) =>
                         CacheGet(files', key, now).ret = Null]_vars

\* C38 witness: delete has removed the entry of category_1 and returned
\* true while the file of the other keys holds an entry.
C38_Witness ==
    /\ result # NotCalled /\ result.op = "delete"
    /\ result.key = cacheKey(<<"1">>) /\ result.ret
    /\ ~existsSync(files, getCacheFilePath(cacheKey(<<"1">>)))
    /\ files[getCacheFilePath(cacheKey(<<"1", ".", "5">>))].kind = "text"

(***************************************************************************)
(* Web client (packages/web/src/App.jsx:6-50): the state of the App        *)
(* component and the fetches it has started.  result holds the component's *)
(* state, args the fetches in the order they were started.                 *)
(***************************************************************************)
MaxSelects == 3

selectedCategory == result.selectedCategory
categoryData == result.categoryData
loading == result.loading
error == result.error

\* The categories of the sidebar.
WebCategories == CacheIds

\* The body of a successful answer of GET /api/category/:id.
CategoryAnswer(id) == [success |-> Bool(TRUE), category |-> id]

\* useState(null), useState(null), useState(false), useState(null)
WebInit ==
    /\ RestIdle
    /\ args = <<>>
    /\ result = [selectedCategory |-> Null, categoryData |-> Null,
                 loading |-> FALSE, error |-> Null]

\* handleCategorySelect(category), lines 47-50, and fetchCategoryData up
\* to its first await, lines 29-33.
handleCategorySelect(category) ==
    /\ Len(args) < MaxSelects
    /\ result' = [result EXCEPT !.selectedCategory = category,
                                 !.loading = TRUE,
                                 !.error = Null]
    /\ args' = Append(args, [id |-> category, st |-> "wait"])
    /\ UNCHANGED <<now, cacheVars, keyVars, tokenVars, runVars>>

\* Lines 34-36 and 42-44: the answer of the i-th fetch says success.
FetchOk(i) ==
    /\ i \in 1..Len(args) /\ args[i].st = "wait"
    /\ result' = [result EXCEPT !.categoryData = CategoryAnswer(args[i].id),
                                 !.loading = FALSE]
    /\ args' = [args EXCEPT ![i].st = "ok"]
    /\ UNCHANGED <<now, cacheVars, keyVars, tokenVars, runVars>>

\* Lines 37-39 and 42-44: the answer says success: false.
FetchRefused(i) ==
    /\ i \in 1..Len(args) /\ args[i].st = "wait"
    /\ result' = [result EXCEPT !.error = Str("error of the answer"),
                                 !.loading = FALSE]
    /\ args' = [args EXCEPT ![i].st = "refused"]
    /\ UNCHANGED <<now, cacheVars, keyVars, tokenVars, runVars>>

\* Lines 40-44: fetch or res.json() rejected.
FetchThrows(i) ==
    /\ i \in 1..Len(args) /\ args[i].st = "wait"
    /\ result' = [result EXCEPT !.error = Str("Failed to load category data"),
                                 !.loading = FALSE]
    /\ args' = [args EXCEPT ![i].st = "threw"]
    /\ UNCHANGED <<now, cacheVars, keyVars, tokenVars, runVars>>

WebNext ==
    \/ \E category \in WebCategories : handleCategorySelect(category)
    \/ \E i \in 1..MaxSelects : FetchOk(i)
    \/ \E i \in 1..MaxSelects : FetchRefused(i)
    \/ \E i \in 1..MaxSelects : FetchThrows(i)

SpecWeb == WebInit /\ [][WebNext]_vars

\* C39: after category A and then category B have been selected, once
\* both fetches have answered the displayed categoryData is the data of B,
\* the selected category, whatever the order of the answers; and loading
\* is false only when the answer for the selected category has arrived.
C39_ShowsSelected ==
    /\ (/\ Len(args) >= 2
        /\ \A i \in 1..Len(args) : args[i].st = "ok") =>
           categoryData = CategoryAnswer(selectedCategory)
    /\ (Len(args) >= 1 /\ ~loading) =>
           \E i \in 1..Len(args) : args[i].id = selectedCategory /\ args[i].st # "wait"

\* C39, the part that holds: the fetch of the selected category is the
\* last one started, and when every fetch started so far is of the
\* selected category and has answered with success, the data of that
\* category is displayed and loading is false.
C39_ShowsOnlySelection ==
    /\ Len(args) >= 1 => args[Len(args)].id = selectedCategory
    /\ (/\ Len(args) >= 1
        /\ \A i \in 1..Len(args) : args[i].st = "ok" /\ args[i].id = selectedCategory) =>
           (categoryData = CategoryAnswer(selectedCategory) /\ ~loading)
====
